---- MODULE Spec2Model ----
(***************************************************************************)
(* Task-management backend (FastAPI + SQLAlchemy + python-jose).           *)
(* The state is the relational database (users, tasks, user_tasks), the    *)
(* wall clock, the cookie jar of the client, the last request/response     *)
(* pair and the requests that have run their queries but not yet           *)
(* committed.  One action per request handler.                             *)
(***************************************************************************)
EXTENDS Integers, Sequences, FiniteSets, TLC

VARIABLES db, now, jar, req, resp, pending

vars == <<db, now, jar, req, resp, pending>>

(***************************************************************************)
(* Bounds of the model.                                                    *)
(***************************************************************************)
MaxUserId == 2
MaxTaskId == 2
MaxInflight == 2
MaxTicks == 1

UserIds == 1..MaxUserId
TaskIds == 1..MaxTaskId

\* The value None of Python for optional string fields.
None == "<None>"

\* The username and the email of the model's user number i
SeedName(i) == CASE i = 1 -> "ann" [] i = 2 -> "bob" [] OTHER -> "cyd"
SeedEmail(i) == CASE i = 1 -> "ann@x.io" [] i = 2 -> "bob@x.io" [] OTHER -> "cyd@x.io"

Usernames == {SeedName(i) : i \in UserIds}
Emails == {SeedEmail(i) : i \in UserIds}
Titles == {"Buy milk", "Task"}
Descriptions == {"text"}

\* schemas.TaskStatus
TaskStatus == {"todo", "in_progress", "completed", "canceled"}

\* config.settings.AuthSettings, both in minutes
ACCESS_TOKEN_EXPIRE_MINUTES == 30
REFRESH_TOKEN_EXPIRE_DAYS == 7
MinutesPerDay == 1440

\* auth.password
MAX_PASSWORD_BYTES == 72
MinPasswordChars == 8

(***************************************************************************)
(* Passwords: a password is a string; PwChars is len(password) and PwBytes *)
(* is len(password.encode("utf-8")).                                       *)
(***************************************************************************)
Passwords == {"", "short", "password123", "newpassword456", "long-ascii-73", "multibyte-40"}

PwChars(p) ==
    CASE p = "" -> 0
      [] p = "short" -> 5
      [] p = "password123" -> 11
      [] p = "newpassword456" -> 14
      [] p = "long-ascii-73" -> 73
      [] p = "multibyte-40" -> 40
      [] OTHER -> 0

PwBytes(p) ==
    CASE p = "multibyte-40" -> 80
      [] OTHER -> PwChars(p)

\* passlib bcrypt: a hash is tied to the password it was made from.
BcryptHash(p) == <<"$2b$", p>>

NoHash == <<"", "">>

verify_password(plain_password, hashed_password) ==
    /\ hashed_password[1] = "$2b$"
    /\ hashed_password[2] = plain_password

\* validate_password_length raises ValueError: "short", "long" or "ok"
validate_password_length(password) ==
    IF PwChars(password) < MinPasswordChars THEN "short"
    ELSE IF PwBytes(password) > MAX_PASSWORD_BYTES THEN "long"
    ELSE "ok"

\* get_password_hash: [ok |-> FALSE] stands for the ValueError
get_password_hash(password) ==
    IF validate_password_length(password) = "ok"
    THEN [ok |-> TRUE, hash |-> BcryptHash(password)]
    ELSE [ok |-> FALSE, hash |-> NoHash]

(***************************************************************************)
(* Tokens.  A JWT is its claims (sub, type, exp) and the state of its      *)
(* signature: "ok" (signed with JWT_SECRET_KEY), "bad" (any other key) or  *)
(* "malformed" (not a JWT at all).  The subject is None, an integer, a     *)
(* decimal string or a non-numeric string.                                 *)
(***************************************************************************)
NoSub == [kind |-> "none", v |-> 0]
IntSub(i) == [kind |-> "int", v |-> i]
StrSub(i) == [kind |-> "str", v |-> i]
WordSub == [kind |-> "word", v |-> 0]

\* The empty string / absent value where a token is expected.
NoToken == [sub |-> NoSub, type |-> "", exp |-> 0, sig |-> "absent"]

Malformed == [sub |-> NoSub, type |-> "", exp |-> 0, sig |-> "malformed"]

\* jose.jwt.encode of the claims with the server's key
JwtEncode(sub, type, exp) == [sub |-> sub, type |-> type, exp |-> exp, sig |-> "ok"]

create_access_token(sub, clock) ==
    JwtEncode(sub, "access", clock + ACCESS_TOKEN_EXPIRE_MINUTES)

create_refresh_token(sub, clock) ==
    JwtEncode(sub, "refresh", clock + REFRESH_TOKEN_EXPIRE_DAYS * MinutesPerDay)

\* jose.jwt.decode that does not look at exp
JwtDecodeNoExp(token, clock) ==
    /\ token.sig = "ok"
    /\ token.sub.kind \in {"none", "str", "word"}

\* jose.jwt.decode as called by verify_token: the signature, then the registered
\* claims (exp against the clock; a subject, when present, must be a string).
JwtDecode(token, clock) ==
    /\ token.sig = "ok"
    /\ token.exp >= clock
    /\ token.sub.kind \in {"none", "str", "word"}

\* verify_token without the comparison of the type tag
verify_token_any_type(token, token_type, clock) ==
    JwtDecode(token, clock)

\* verify_token: TRUE when the payload is returned, FALSE for JWTError
verify_token(token, token_type, clock) ==
    /\ JwtDecode(token, clock)
    /\ token.type = token_type

(***************************************************************************)
(* The database.  users and tasks are sets of rows; user_tasks counts the  *)
(* rows of the join table per (user_id, task_id), so that a duplicated     *)
(* pair is a state the model can express.                                  *)
(***************************************************************************)
NoUser == [id |-> 0, username |-> "", email |-> "", password_hash |-> NoHash, is_active |-> FALSE]

NoTask == [id |-> 0, title |-> "", description |-> "", status |-> "", created_at |-> 0, updated_at |-> 0]

Pairs == UserIds \X TaskIds

NoPairs == [p \in Pairs |-> 0]

EmptyDb == [users |-> {}, tasks |-> {}, user_tasks |-> NoPairs]

\* db.query(User).filter(User.id == user_id).first()
QueryUserById(d, user_id) ==
    IF \E u \in d.users : u.id = user_id
    THEN CHOOSE u \in d.users : u.id = user_id
    ELSE NoUser

\* db.query(Task).filter(Task.id == task_id).first()
QueryTaskById(d, task_id) ==
    IF \E t \in d.tasks : t.id = task_id
    THEN CHOOSE t \in d.tasks : t.id = task_id
    ELSE NoTask

\* The rows a query may give to .first(): any matching row, NoUser for none.
FirstOf(rows) == IF rows = {} THEN {NoUser} ELSE rows

Linked(d, user_id, task_id) ==
    /\ <<user_id, task_id>> \in Pairs
    /\ d.user_tasks[<<user_id, task_id>>] > 0

\* Task.assigned_users: the users joined through user_tasks
assigned_users(d, task_id) == {u \in d.users : Linked(d, u.id, task_id)}

\* User.tasks: the tasks joined through user_tasks
user_task_rows(d, user_id) == {t \in d.tasks : Linked(d, user_id, t.id)}

(***************************************************************************)
(* Constraints of the schema, applied by the database at commit.  Each     *)
(* operator gives [ok, db]; ok = FALSE is the IntegrityError (or the       *)
(* StaleDataError of a row that is gone) and leaves the database as it was.*)
(***************************************************************************)
\* INSERT INTO users without the UNIQUE constraints on username and email
InsertUserNoUnique(d, row) ==
    IF \E u \in d.users : u.id = row.id
    THEN [ok |-> FALSE, db |-> d]
    ELSE [ok |-> TRUE, db |-> [d EXCEPT !.users = @ \cup {row}]]

\* INSERT INTO users: primary key id, UNIQUE username, UNIQUE email
InsertUser(d, row) ==
    IF \E u \in d.users : u.id = row.id \/ u.username = row.username \/ u.email = row.email
    THEN [ok |-> FALSE, db |-> d]
    ELSE [ok |-> TRUE, db |-> [d EXCEPT !.users = @ \cup {row}]]

\* UPDATE users SET ... WHERE id = row.id
UpdateUserRow(d, row) ==
    IF ~(\E u \in d.users : u.id = row.id)
    THEN [ok |-> FALSE, db |-> d]
    ELSE IF \E u \in d.users : u.id # row.id /\ (u.username = row.username \/ u.email = row.email)
    THEN [ok |-> FALSE, db |-> d]
    ELSE [ok |-> TRUE,
          db |-> [d EXCEPT !.users = {u \in @ : u.id # row.id} \cup {row}]]

\* DELETE FROM users without removing the user_tasks rows of the user
DeleteUserRowNoCascade(d, user_id) ==
    IF ~(\E u \in d.users : u.id = user_id)
    THEN [ok |-> FALSE, db |-> d]
    ELSE [ok |-> TRUE, db |-> [d EXCEPT !.users = {u \in @ : u.id # user_id}]]

\* DELETE FROM users WHERE id = user_id; the user_tasks rows of the user go
\* with it (the ORM deletes the secondary rows, ondelete="CASCADE" the rest)
DeleteUserRow(d, user_id) ==
    IF ~(\E u \in d.users : u.id = user_id)
    THEN [ok |-> FALSE, db |-> d]
    ELSE [ok |-> TRUE,
          db |-> [d EXCEPT !.users = {u \in @ : u.id # user_id},
                           !.user_tasks = [p \in Pairs |-> IF p[1] = user_id THEN 0 ELSE @[p]]]]

\* NOT NULL columns of tasks: title, description, status
\* the NOT NULL columns of tasks, had status been declared nullable
TaskNotNullOkButStatus(row) ==
    /\ row.title # None
    /\ row.description # None

TaskNotNullOk(row) ==
    /\ row.title # None
    /\ row.description # None
    /\ row.status # None

\* INSERT INTO user_tasks without its primary key
InsertLinkNoKey(d, user_id, task_id) ==
    IF ~(\E u \in d.users : u.id = user_id) \/ ~(\E t \in d.tasks : t.id = task_id)
    THEN [ok |-> FALSE, db |-> d]
    ELSE [ok |-> TRUE, db |-> [d EXCEPT !.user_tasks[<<user_id, task_id>>] = @ + 1]]

\* INSERT INTO user_tasks: primary key (user_id, task_id), both foreign keys
InsertLink(d, user_id, task_id) ==
    IF \/ ~(\E u \in d.users : u.id = user_id)
       \/ ~(\E t \in d.tasks : t.id = task_id)
       \/ d.user_tasks[<<user_id, task_id>>] > 0
    THEN [ok |-> FALSE, db |-> d]
    ELSE [ok |-> TRUE, db |-> [d EXCEPT !.user_tasks[<<user_id, task_id>>] = 1]]

\* DELETE FROM user_tasks WHERE task_id = ..., whoever the user
DeleteLinksOfTask(d, user_id, task_id) ==
    IF d.user_tasks[<<user_id, task_id>>] = 0
    THEN [ok |-> FALSE, db |-> d]
    ELSE [ok |-> TRUE,
          db |-> [d EXCEPT !.user_tasks =
                     [p \in DOMAIN @ |-> IF p[2] = task_id THEN 0 ELSE @[p]]]]

\* DELETE FROM user_tasks WHERE user_id = ... AND task_id = ...
DeleteLink(d, user_id, task_id) ==
    IF d.user_tasks[<<user_id, task_id>>] = 0
    THEN [ok |-> FALSE, db |-> d]
    ELSE [ok |-> TRUE, db |-> [d EXCEPT !.user_tasks[<<user_id, task_id>>] = 0]]

\* the insertion of the task without the append to assigned_users
InsertTaskUnowned(d, row, user_id) ==
    IF (\E t \in d.tasks : t.id = row.id) \/ ~TaskNotNullOk(row)
    THEN [ok |-> FALSE, db |-> d]
    ELSE [ok |-> TRUE, db |-> [d EXCEPT !.tasks = @ \cup {row}]]

\* INSERT INTO tasks, then the user_tasks row of the creator, in one commit
InsertTaskWithOwner(d, row, user_id) ==
    IF (\E t \in d.tasks : t.id = row.id) \/ ~TaskNotNullOk(row)
    THEN [ok |-> FALSE, db |-> d]
    ELSE LET withTask == [d EXCEPT !.tasks = @ \cup {row}]
             linked == InsertLink(withTask, user_id, row.id)
         IN IF linked.ok THEN linked ELSE [ok |-> FALSE, db |-> d]

\* UPDATE tasks SET ... WHERE id = row.id
UpdateTaskRow(d, row) ==
    IF ~(\E t \in d.tasks : t.id = row.id) \/ ~TaskNotNullOk(row)
    THEN [ok |-> FALSE, db |-> d]
    ELSE [ok |-> TRUE,
          db |-> [d EXCEPT !.tasks = {t \in @ : t.id # row.id} \cup {row}]]

\* DELETE FROM tasks WHERE id = task_id, with the user_tasks rows of the task
DeleteTaskRow(d, task_id) ==
    IF ~(\E t \in d.tasks : t.id = task_id)
    THEN [ok |-> FALSE, db |-> d]
    ELSE [ok |-> TRUE,
          db |-> [d EXCEPT !.tasks = {t \in @ : t.id # task_id},
                           !.user_tasks = [p \in Pairs |-> IF p[2] = task_id THEN 0 ELSE @[p]]]]

(***************************************************************************)
(* Requests and responses.  An Authorization header is its scheme and the  *)
(* credential after it; a response is the status, the detail of the error, *)
(* and the parts of the body the properties speak about.                   *)
(***************************************************************************)
NoHeader == [scheme |-> "none", tok |-> NoToken]

Bearer(token) == [scheme |-> "Bearer", tok |-> token]

Basic == [scheme |-> "Basic", tok |-> Malformed]

Response(status, detail) ==
    [status |-> status, detail |-> detail, user |-> NoUser, task |-> NoTask,
     users |-> {}, tasks |-> <<>>, access_token |-> NoToken, refresh_token |-> NoToken]

\* What a handler gives: the response and the database it leaves.
Out(response, d) == [resp |-> response, db |-> d]

\* An exception nobody handles: 500, and the transaction is rolled back.
ServerError(d) == Out(Response(500, "Internal Server Error"), d)

(***************************************************************************)
(* auth/dependencies.py                                                    *)
(***************************************************************************)
\* The token get_current_user goes on to verify, the cookie before the header
ExtractTokenCookieFirst(authorization, access_token_cookie) ==
    IF access_token_cookie # NoToken THEN access_token_cookie
    ELSE IF authorization.scheme = "Bearer" THEN authorization.tok
    ELSE NoToken

\* The token get_current_user goes on to verify
ExtractToken(authorization, access_token_cookie) ==
    IF authorization.scheme = "Bearer" THEN authorization.tok
    ELSE IF access_token_cookie # NoToken THEN access_token_cookie
    ELSE NoToken

\* get_current_user: the response is 200 with the user, or the 401 raised
get_current_user(authorization, access_token_cookie, d, clock) ==
    LET access_token == ExtractToken(authorization, access_token_cookie)
        user == QueryUserById(d, access_token.sub.v)
    IN  IF access_token = NoToken
        THEN Response(401, "Not authenticated")
        ELSE IF ~verify_token(access_token, "access", clock)
        THEN Response(401, "Invalid or expired token")
        ELSE IF access_token.sub.kind # "str"
        \* sub is None (the HTTPException is caught by "except Exception") or
        \* int(sub) raises ValueError
        THEN Response(401, "Authentication error")
        ELSE IF user = NoUser \/ ~user.is_active
        THEN Response(401, "User not found or inactive")
        ELSE [Response(200, "") EXCEPT !.user = user]

\* A handler that runs whoever calls
Ungated(auth, out) == out

\* Depends(get_current_user): the handler runs only for an authenticated caller
Gated(auth, out) == IF auth.status = 200 THEN out ELSE Out(auth, db)

(***************************************************************************)
(* routers/users.py: get_user, used by both routers                        *)
(***************************************************************************)
get_user(d, user_id) ==
    LET user == QueryUserById(d, user_id)
    IN  IF user = NoUser
        THEN Response(400, "User ID not found")
        ELSE [Response(200, "") EXCEPT !.user = user]

(***************************************************************************)
(* routers/tasks.py                                                        *)
(***************************************************************************)
\* The characters of the strings of the model
Chars(text) ==
    CASE text = "ann" -> <<"a", "n", "n">>
      [] text = "bob" -> <<"b", "o", "b">>
      [] text = "cyd" -> <<"c", "y", "d">>
      [] text = "ann@x.io" -> <<"a", "n", "n", "@", "x", ".", "i", "o">>
      [] text = "bob@x.io" -> <<"b", "o", "b", "@", "x", ".", "i", "o">>
      [] text = "cyd@x.io" -> <<"c", "y", "d", "@", "x", ".", "i", "o">>
      [] text = "Buy milk" -> <<"B", "u", "y", " ", "m", "i", "l", "k">>
      [] text = "Task" -> <<"T", "a", "s", "k">>
      [] text = "Buy" -> <<"B", "u", "y">>
      [] text = "k" -> <<"k">>
      [] text = "n" -> <<"n">>
      [] text = "_" -> <<"_">>
      [] text = "" -> <<>>

\* text LIKE pattern, on characters: % stands for any run of characters and _
\* for any one character
RECURSIVE Like(_, _)
Like(text, pattern) ==
    IF pattern = <<>> THEN text = <<>>
    ELSE IF Head(pattern) = "%"
    THEN Like(text, Tail(pattern)) \/ (text # <<>> /\ Like(Tail(text), pattern))
    ELSE /\ text # <<>>
         /\ Head(pattern) \in {"_", Head(text)}
         /\ Like(Tail(text), Tail(pattern))

\* the substring test of Python: part in text
Within(text, part) ==
    \E i \in 0..(Len(Chars(text)) - Len(Chars(part))) :
        SubSeq(Chars(text), i + 1, i + Len(Chars(part))) = Chars(part)

\* column.contains(part): column LIKE '%' || part || '%', the characters of
\* part taken as they are (no autoescape)
Contains(text, part) == Like(Chars(text), <<"%">> \o Chars(part) \o <<"%">>)

TitleFilters == {None, "", "Buy", "k", "Task"}

\* get_task without the check of the caller's assignment
get_task_open(d, current_user, task_id) ==
    LET task == QueryTaskById(d, task_id)
    IN  IF task = NoTask
        THEN Response(404, "Task not found")
        ELSE [Response(200, "") EXCEPT !.task = task, !.users = assigned_users(d, task_id)]

get_task(d, current_user, task_id) ==
    LET task == QueryTaskById(d, task_id)
    IN  IF task = NoTask
        THEN Response(404, "Task not found")
        ELSE IF current_user \notin assigned_users(d, task_id)
        THEN Response(403, "Not authorized to access this task")
        ELSE [Response(200, "") EXCEPT !.task = task, !.users = assigned_users(d, task_id)]

\* The rows of get_tasks without the join on the caller
get_tasks_rows_unscoped(d, current_user, status, title) ==
    {t \in d.tasks :
        /\ (status # None => t.status = status)
        /\ (title \notin {None, ""} => Contains(t.title, title))}

\* The rows of get_tasks before offset and limit
get_tasks_rows(d, current_user, status, title) ==
    {t \in d.tasks :
        /\ Linked(d, current_user.id, t.id)
        /\ (status # None => t.status = status)
        /\ (title \notin {None, ""} => Contains(t.title, title))}

\* The orders in which the database may give a set of rows (no ORDER BY)
Orders(rows) ==
    {o \in [1..Cardinality(rows) -> rows] : \A i, j \in 1..Cardinality(rows) : i # j => o[i] # o[j]}

\* query.offset(skip).limit(limit)
Window(order, skip, limit) ==
    [i \in 1..(IF Len(order) - skip < 0 THEN 0
               ELSE IF Len(order) - skip < limit THEN Len(order) - skip
               ELSE limit) |-> order[i + skip]]

\* get_tasks, given the order the database chose for the rows
get_tasks(d, current_user, skip, limit, status, title, order) ==
    [Response(200, "") EXCEPT !.tasks = Window(order, skip, limit)]

\* The fields a TaskUpdate body sets (exclude_unset), applied with setattr
\* the setattr loop over every field of TaskUpdate, as dict() without
\* exclude_unset would give them
ApplyTaskUpdateAll(task, task_update) ==
    [task EXCEPT !.title = task_update.title,
                 !.description = task_update.description,
                 !.status = task_update.status]

ApplyTaskUpdate(task, task_update) ==
    [task EXCEPT
        !.title = IF "title" \in task_update.set THEN task_update.title ELSE @,
        !.description = IF "description" \in task_update.set THEN task_update.description ELSE @,
        !.status = IF "status" \in task_update.set THEN task_update.status ELSE @]

create_task(d, current_user, task, new_id, clock) ==
    IF task.id # 0 /\ QueryTaskById(d, task.id) # NoTask
    THEN Out(Response(400, "ID already used"), d)
    ELSE LET row == [id |-> IF task.id # 0 THEN task.id ELSE new_id,
                     title |-> task.title, description |-> task.description,
                     status |-> task.status, created_at |-> clock, updated_at |-> clock]
             done == InsertTaskWithOwner(d, row, current_user.id)
         IN  IF done.ok
             THEN Out([Response(201, "") EXCEPT !.task = row], done.db)
             ELSE ServerError(d)

update_task(d, current_user, task_id, task_update, clock) ==
    LET got == get_task(d, current_user, task_id)
        row == [ApplyTaskUpdate(got.task, task_update) EXCEPT !.updated_at = clock]
        done == UpdateTaskRow(d, row)
    IN  IF got.status # 200 THEN Out(got, d)
        ELSE IF done.ok
        THEN Out([Response(200, "") EXCEPT !.task = row], done.db)
        ELSE ServerError(d)

delete_task(d, current_user, task_id) ==
    LET got == get_task(d, current_user, task_id)
        done == DeleteTaskRow(d, task_id)
    IN  IF got.status # 200 THEN Out(got, d)
        ELSE IF done.ok THEN Out(Response(204, ""), done.db)
        ELSE ServerError(d)

get_task_users(d, current_user, task_id) ==
    LET got == get_task(d, current_user, task_id)
    IN  IF got.status # 200 THEN got
        ELSE [Response(200, "") EXCEPT !.users = assigned_users(d, task_id)]

\* assign_user_to_task up to the commit: 0 when the handler goes on to commit
assign_user_to_task_check(d, current_user, task_id, user_id) ==
    LET got == get_task(d, current_user, task_id)
        user == get_user(d, user_id)
    IN  IF got.status # 200 THEN got
        ELSE IF user.status # 200 THEN user
        ELSE IF user.user \in assigned_users(d, task_id)
        THEN Response(400, "User already assigned to this task")
        ELSE Response(0, "")

\* task.assigned_users.append(user); db.commit()
assign_user_to_task_commit(d, task_id, user_id) ==
    LET done == InsertLink(d, user_id, task_id)
    IN  IF done.ok THEN Out(Response(201, "User assigned succesfully to task"), done.db)
        ELSE ServerError(d)

assign_user_to_task(d, current_user, task_id, user_id) ==
    LET checked == assign_user_to_task_check(d, current_user, task_id, user_id)
    IN  IF checked.status # 0 THEN Out(checked, d)
        ELSE assign_user_to_task_commit(d, task_id, user_id)

remove_user_from_task(d, current_user, task_id, user_id) ==
    LET got == get_task(d, current_user, task_id)
        user == get_user(d, user_id)
        done == DeleteLink(d, user_id, task_id)
    IN  IF got.status # 200 THEN Out(got, d)
        ELSE IF user.status # 200 THEN Out(user, d)
        ELSE IF user.user \notin assigned_users(d, task_id)
        THEN Out(Response(400, "User not assigned to this task"), d)
        ELSE IF done.ok THEN Out(Response(204, ""), done.db)
        ELSE ServerError(d)

update_task_status(d, current_user, task_id, status, clock) ==
    LET got == get_task(d, current_user, task_id)
        row == [got.task EXCEPT !.status = status, !.updated_at = clock]
        done == UpdateTaskRow(d, row)
    IN  IF got.status # 200 THEN Out(got, d)
        ELSE IF done.ok
        THEN Out([Response(200, "") EXCEPT !.task = row], done.db)
        ELSE ServerError(d)

(***************************************************************************)
(* routers/users.py                                                        *)
(***************************************************************************)
\* The rows create_user's query matches: same username or same email
create_user_matches(d, user) ==
    {u \in d.users : u.username = user.username \/ u.email = user.email}

\* create_user up to db.add: 0 when the handler goes on to commit; existing
\* is the row .first() gave
create_user_check(d, user, existing) ==
    IF user.password \in {None, ""}
    THEN Response(400, "Password is required")
    ELSE IF PwChars(user.password) < MinPasswordChars
    THEN Response(400, "Password must be at least 8 characters")
    ELSE IF existing # NoUser /\ existing.username = user.username
    THEN Response(400, "Already existing username")
    ELSE IF existing # NoUser
    THEN Response(400, "Already existing email")
    ELSE IF ~get_password_hash(user.password).ok
    THEN Response(500, "Internal Server Error")
    ELSE Response(0, "")

\* db.add(db_user); db.commit(); db.refresh(db_user)
create_user_commit(d, user, new_id) ==
    LET row == [id |-> IF user.id # 0 THEN user.id ELSE new_id,
                username |-> user.username, email |-> user.email,
                password_hash |-> get_password_hash(user.password).hash,
                is_active |-> TRUE]
        done == InsertUser(d, row)
    IN  IF done.ok
        THEN Out([Response(201, "") EXCEPT !.user = row], done.db)
        ELSE ServerError(d)

create_user(d, user, existing, new_id) ==
    LET checked == create_user_check(d, user, existing)
    IN  IF checked.status # 0 THEN Out(checked, d)
        ELSE create_user_commit(d, user, new_id)

get_users_rows(d, username, email) ==
    {u \in d.users :
        /\ (username \notin {None, ""} => Contains(u.username, username))
        /\ (email \notin {None, ""} => Contains(u.email, email))}

get_users(d, skip, limit, username, email, order) ==
    [Response(200, "") EXCEPT
        !.users = {Window(order, skip, limit)[i] : i \in DOMAIN Window(order, skip, limit)}]

\* update_user_check without the query on email
update_user_check_no_email(d, user_id, user_update) ==
    LET got == get_user(d, user_id)
    IN  IF got.status # 200 THEN got
        ELSE IF /\ "username" \in user_update.set
                /\ \E u \in d.users : u.username = user_update.username /\ u.id # user_id
        THEN Response(400, "Username already used")
        ELSE Response(0, "")

\* update_user up to the setattr loop: 0 when the handler goes on to commit
update_user_check(d, user_id, user_update) ==
    LET got == get_user(d, user_id)
    IN  IF got.status # 200 THEN got
        ELSE IF /\ "username" \in user_update.set
                /\ \E u \in d.users : u.username = user_update.username /\ u.id # user_id
        THEN Response(400, "Username already used")
        ELSE IF /\ "email" \in user_update.set
                /\ \E u \in d.users : u.email = user_update.email /\ u.id # user_id
        THEN Response(400, "Email already used")
        ELSE Response(0, "")

\* The setattr loop and db.commit(): the UPDATE writes the columns whose value
\* differs from the one the handler loaded (loaded), onto the row as it is now
update_user_commit(d, loaded, user_update) ==
    LET current == QueryUserById(d, loaded.id)
        row == [current EXCEPT
                   !.username = IF "username" \in user_update.set /\ user_update.username # loaded.username
                                THEN user_update.username ELSE @,
                   !.email = IF "email" \in user_update.set /\ user_update.email # loaded.email
                             THEN user_update.email ELSE @]
        done == UpdateUserRow(d, row)
    IN  IF current = NoUser \/ row.username = None \/ row.email = None \/ ~done.ok
        THEN ServerError(d)
        ELSE Out([Response(200, "") EXCEPT !.user = row], done.db)

update_user(d, user_id, user_update) ==
    LET checked == update_user_check(d, user_id, user_update)
    IN  IF checked.status # 0 THEN Out(checked, d)
        ELSE update_user_commit(d, QueryUserById(d, user_id), user_update)

delete_user(d, user_id) ==
    LET got == get_user(d, user_id)
        done == DeleteUserRow(d, user_id)
    IN  IF got.status # 200 THEN Out(got, d)
        ELSE IF done.ok THEN Out(Response(204, ""), done.db)
        ELSE ServerError(d)

\* The strings a client may send as the status filter of get_user_tasks
StatusFilters == {None, "", "done"} \cup TaskStatus

get_user_tasks_rows(d, user_id, status) ==
    {t \in user_task_rows(d, user_id) : status \notin {None, ""} => t.status = status}

get_user_tasks(d, user_id, status, order) ==
    LET got == get_user(d, user_id)
    IN  IF got.status # 200 THEN got
        ELSE IF status \notin {None, ""} /\ status \notin TaskStatus
        THEN Response(400, "Status not valid")
        ELSE [Response(200, "") EXCEPT !.tasks = order]

\* assign_task_to_user without the test "task in user.tasks"
assign_task_to_user_check_no_dup(d, user_id, task_id) ==
    LET got == get_user(d, user_id)
        task == QueryTaskById(d, task_id)
    IN  IF got.status # 200 THEN got
        ELSE IF task = NoTask THEN Response(400, "Task ID not found")
        ELSE Response(0, "")

\* assign_task_to_user up to the commit: 0 when the handler goes on to commit
assign_task_to_user_check(d, user_id, task_id) ==
    LET got == get_user(d, user_id)
        task == QueryTaskById(d, task_id)
    IN  IF got.status # 200 THEN got
        ELSE IF task = NoTask THEN Response(400, "Task ID not found")
        ELSE IF task \in user_task_rows(d, user_id)
        THEN Response(400, "Task already assigned to the user")
        ELSE Response(0, "")

\* user.tasks.append(task); db.commit()
assign_task_to_user_commit(d, user_id, task_id) ==
    LET done == InsertLink(d, user_id, task_id)
    IN  IF done.ok THEN Out(Response(201, "Task assigned"), done.db)
        ELSE ServerError(d)

assign_task_to_user(d, user_id, task_id) ==
    LET checked == assign_task_to_user_check(d, user_id, task_id)
    IN  IF checked.status # 0 THEN Out(checked, d)
        ELSE assign_task_to_user_commit(d, user_id, task_id)

remove_task_from_user(d, user_id, task_id) ==
    LET got == get_user(d, user_id)
        task == QueryTaskById(d, task_id)
        done == DeleteLink(d, user_id, task_id)
    IN  IF got.status # 200 THEN Out(got, d)
        ELSE IF task = NoTask THEN Out(Response(400, "Task ID not found"), d)
        ELSE IF task \notin user_task_rows(d, user_id)
        THEN Out(Response(400, "Task not assigned to this user"), d)
        ELSE IF done.ok THEN Out(Response(204, ""), done.db)
        ELSE ServerError(d)

(***************************************************************************)
(* routers/auth.py                                                         *)
(***************************************************************************)
\* login that tells an unknown username from a wrong password
login_leaky(d, credentials, clock) ==
    LET user == IF \E u \in d.users : u.username = credentials.username
                THEN CHOOSE u \in d.users : u.username = credentials.username
                ELSE NoUser
    IN  IF user = NoUser
        THEN Response(401, "Incorrect username or password")
        ELSE IF ~user.is_active
        THEN Response(401, "User account is inactive")
        ELSE IF ~verify_password(credentials.password, user.password_hash)
        THEN Response(401, "Incorrect username or password")
        ELSE [Response(200, "") EXCEPT
                 !.access_token = create_access_token(IntSub(user.id), clock),
                 !.refresh_token = create_refresh_token(IntSub(user.id), clock)]

\* login that does not look at is_active
login_any_active(d, credentials, clock) ==
    LET user == IF \E u \in d.users : u.username = credentials.username
                THEN CHOOSE u \in d.users : u.username = credentials.username
                ELSE NoUser
    IN  IF user = NoUser \/ ~verify_password(credentials.password, user.password_hash)
        THEN Response(401, "Incorrect username or password")
        ELSE [Response(200, "") EXCEPT
                 !.access_token = create_access_token(IntSub(user.id), clock),
                 !.refresh_token = create_refresh_token(IntSub(user.id), clock)]

\* login: a 200 also sets both tokens as cookies
login(d, credentials, clock) ==
    LET user == IF \E u \in d.users : u.username = credentials.username
                THEN CHOOSE u \in d.users : u.username = credentials.username
                ELSE NoUser
    IN  IF user = NoUser \/ ~verify_password(credentials.password, user.password_hash)
        THEN Response(401, "Incorrect username or password")
        ELSE IF ~user.is_active
        THEN Response(401, "User account is inactive")
        ELSE [Response(200, "") EXCEPT
                 !.access_token = create_access_token(IntSub(user.id), clock),
                 !.refresh_token = create_refresh_token(IntSub(user.id), clock)]

logout == Response(200, "Successfully logged out")

get_me(current_user) == [Response(200, "") EXCEPT !.user = current_user]

\* refresh: the refresh_token cookie is verified as a refresh token and its
\* subject, as it is in the payload, is looked up in users; a 200 also sets
\* both new tokens as cookies.  A subject that is no number finds no row.
refresh(d, refresh_token, clock) ==
    LET user == IF refresh_token.sub.kind = "str"
                THEN QueryUserById(d, refresh_token.sub.v)
                ELSE NoUser
    IN  IF refresh_token = NoToken
        THEN Response(401, "Refresh token missing")
        ELSE IF ~verify_token(refresh_token, "refresh", clock)
        THEN Response(401, "Invalid or expired refresh token")
        ELSE IF refresh_token.sub.kind = "none"
        THEN Response(401, "Invalid token payload")
        ELSE IF user = NoUser \/ ~user.is_active
        THEN Response(401, "User not found or inactive")
        ELSE [Response(200, "") EXCEPT
                 !.access_token = create_access_token(IntSub(user.id), clock),
                 !.refresh_token = create_refresh_token(IntSub(user.id), clock)]

\* change_password that changes the hash whatever the current password given
change_password_unverified(d, current_user, password_data) ==
    LET hashed == get_password_hash(password_data.new_password)
        done == UpdateUserRow(d, [current_user EXCEPT !.password_hash = hashed.hash])
    IN  IF PwChars(password_data.new_password) < MinPasswordChars
        THEN Out(Response(400, "New password must be at least 8 characters"), d)
        ELSE IF ~hashed.ok \/ ~done.ok
        THEN ServerError(d)
        ELSE Out(Response(200, "Password changed successfully"), done.db)

\* change_password: get_password_hash raises ValueError for a new password of
\* more than MAX_PASSWORD_BYTES bytes, which nobody handles
change_password(d, current_user, password_data) ==
    LET hashed == get_password_hash(password_data.new_password)
        done == UpdateUserRow(d, [current_user EXCEPT !.password_hash = hashed.hash])
    IN  IF ~verify_password(password_data.current_password, current_user.password_hash)
        THEN Out(Response(400, "Current password is incorrect"), d)
        ELSE IF PwChars(password_data.new_password) < MinPasswordChars
        THEN Out(Response(400, "New password must be at least 8 characters"), d)
        ELSE IF ~hashed.ok \/ ~done.ok
        THEN ServerError(d)
        ELSE Out(Response(200, "Password changed successfully"), done.db)

(***************************************************************************)
(* Inputs of the requests.                                                 *)
(***************************************************************************)
\* Access tokens made by create_access_token for a string subject
CallerTokens == {create_access_token(StrSub(i), now) : i \in UserIds}

\* The (Authorization header, access_token cookie) pairs sent to the routers
\* A request without credentials
Anonymous == {<<NoHeader, NoToken>>}

Creds == {<<Bearer(t), NoToken>> : t \in CallerTokens} \cup Anonymous

\* TaskModel bodies; id 0 is an absent id
TaskModels ==
    [id : {0} \cup TaskIds, title : Titles, description : {None} \cup Descriptions,
     status : TaskStatus]

\* TaskUpdate bodies: the fields set, and their values (None when not set)
TaskUpdates ==
    {u \in [set : SUBSET {"title", "description", "status"},
            title : Titles \cup {None}, description : Descriptions \cup {None},
            status : TaskStatus \cup {None}] :
        /\ ("title" \notin u.set => u.title = None)
        /\ ("description" \notin u.set => u.description = None)
        /\ ("status" \notin u.set => u.status = None)}

\* A few bodies and filters, for the specifications that are not about them
FewTaskModels ==
    {m \in TaskModels : m.title = "Task" /\ m.status = "todo" /\ m.description # None}

FewTaskUpdates ==
    {u \in TaskUpdates : u.title = None /\ u.description = None /\ u.status \in {None, "completed"}}

FewStatuses == {"todo", "completed"}

Skips == 0..1
Limits == {1, MaxTaskId + 1}

\* (skip, limit, status, title) of get_tasks
TaskFilters == Skips \X Limits \X (TaskStatus \cup {None}) \X TitleFilters

FewTaskFilters == {<<0, MaxTaskId + 1, None, None>>, <<1, 1, "todo", None>>}

\* the filters of get_tasks with a title that is a word, or the one character _
ListFilters == Skips \X Limits \X {None, "todo"} \X {None, "Buy", "_"}

NoJar == [access_token |-> NoToken, refresh_token |-> NoToken]

\* A request without a body
NoBody == [set |-> {}]

\* The last request: its handler, its credentials, the ids and the username it
\* names and its JSON body
Request(op, h, c, task_id, user_id) ==
    [op |-> op, header |-> h, cookie |-> c, task_id |-> task_id, user_id |-> user_id,
     username |-> "", body |-> NoBody]

\* The request is answered: the response goes out and the commit is visible.
Answer(op, h, c, task_id, user_id, out) ==
    /\ req' = Request(op, h, c, task_id, user_id)
    /\ resp' = out.resp
    /\ db' = out.db
    /\ UNCHANGED <<now, jar, pending>>

\* The same for a request with a body
AnswerBody(op, h, c, task_id, user_id, body, out) ==
    /\ req' = [Request(op, h, c, task_id, user_id) EXCEPT !.body = body]
    /\ resp' = out.resp
    /\ db' = out.db
    /\ UNCHANGED <<now, jar, pending>>

FreeTaskIds == {i \in TaskIds : QueryTaskById(db, i) = NoTask}
FreeUserIds == {i \in UserIds : QueryUserById(db, i) = NoUser}

(***************************************************************************)
(* Actions of routers/tasks.py                                             *)
(***************************************************************************)
CreateTask(models) ==
    \E cr \in Creds, task \in models, new_id \in FreeTaskIds \cup {0} :
        LET auth == get_current_user(cr[1], cr[2], db, now)
        IN  /\ (task.id = 0) => (new_id # 0)
            /\ (task.id # 0) => (new_id = 0)
            /\ AnswerBody("create_task", cr[1], cr[2], task.id, 0, task,
                          Gated(auth, create_task(db, auth.user, task, new_id, now)))

GetTasks(filters) ==
    \E cr \in Creds, f \in filters :
        LET auth == get_current_user(cr[1], cr[2], db, now)
        IN  \E order \in Orders(get_tasks_rows(db, auth.user, f[3], f[4])) :
                AnswerBody("get_tasks", cr[1], cr[2], 0, 0,
                           [skip |-> f[1], limit |-> f[2], status |-> f[3], title |-> f[4]],
                           Gated(auth, Out(get_tasks(db, auth.user, f[1], f[2], f[3], f[4], order), db)))

GetTask ==
    \E cr \in Creds, task_id \in TaskIds :
        LET auth == get_current_user(cr[1], cr[2], db, now)
        IN  Answer("get_task", cr[1], cr[2], task_id, 0,
                   Gated(auth, Out(get_task(db, auth.user, task_id), db)))

UpdateTask(updates) ==
    \E cr \in Creds, task_id \in TaskIds, task_update \in updates :
        LET auth == get_current_user(cr[1], cr[2], db, now)
        IN  AnswerBody("update_task", cr[1], cr[2], task_id, 0, task_update,
                       Gated(auth, update_task(db, auth.user, task_id, task_update, now)))

DeleteTask ==
    \E cr \in Creds, task_id \in TaskIds :
        LET auth == get_current_user(cr[1], cr[2], db, now)
        IN  Answer("delete_task", cr[1], cr[2], task_id, 0,
                   Gated(auth, delete_task(db, auth.user, task_id)))

GetTaskUsers ==
    \E cr \in Creds, task_id \in TaskIds :
        LET auth == get_current_user(cr[1], cr[2], db, now)
        IN  Answer("get_task_users", cr[1], cr[2], task_id, 0,
                   Gated(auth, Out(get_task_users(db, auth.user, task_id), db)))

AssignUserToTask ==
    \E cr \in Creds, task_id \in TaskIds, user_id \in UserIds :
        LET auth == get_current_user(cr[1], cr[2], db, now)
        IN  Answer("assign_user_to_task", cr[1], cr[2], task_id, user_id,
                   Gated(auth, assign_user_to_task(db, auth.user, task_id, user_id)))

RemoveUserFromTask ==
    \E cr \in Creds, task_id \in TaskIds, user_id \in UserIds :
        LET auth == get_current_user(cr[1], cr[2], db, now)
        IN  Answer("remove_user_from_task", cr[1], cr[2], task_id, user_id,
                   Gated(auth, remove_user_from_task(db, auth.user, task_id, user_id)))

UpdateTaskStatus(statuses) ==
    \E cr \in Creds, task_id \in TaskIds, status \in statuses :
        LET auth == get_current_user(cr[1], cr[2], db, now)
        IN  Answer("update_task_status", cr[1], cr[2], task_id, 0,
                   Gated(auth, update_task_status(db, auth.user, task_id, status, now)))

(***************************************************************************)
(* Actions of routers/users.py.  No handler of this router depends on      *)
(* get_current_user: the credentials of the request are not looked at.     *)
(***************************************************************************)
\* UserModel bodies; id 0 is an absent id
UserModels ==
    [id : {0} \cup UserIds, username : Usernames, email : Emails,
     password : Passwords \cup {None}]

\* UserUpdate bodies: the fields set, and their values (None when not set)
UserUpdates ==
    {u \in [set : SUBSET {"username", "email"}, username : Usernames \cup {None},
            email : Emails \cup {None}] :
        /\ ("username" \notin u.set => u.username = None)
        /\ ("email" \notin u.set => u.email = None)}

UserFilters == {None, "", "n", "ann"}

\* A few bodies, for the specifications that are not about passwords
FewUserModels == {m \in UserModels : m.password = "password123"}

FewUserUpdates == {u \in UserUpdates : u.set # {} /\ (u.username = None \/ u.email = None)}

CreateUser(creds, models) ==
    \E cr \in creds, user \in models, new_id \in FreeUserIds \cup {0} :
        \E existing \in FirstOf(create_user_matches(db, user)) :
            /\ (user.id = 0) => (new_id # 0)
            /\ (user.id # 0) => (new_id = 0)
            /\ AnswerBody("create_user", cr[1], cr[2], 0, user.id, user,
                          create_user(db, user, existing, new_id))

\* (skip, limit, username, email) of get_users
UserListFilters == Skips \X {1, MaxUserId + 1} \X UserFilters \X UserFilters

FewUserListFilters == {<<0, MaxUserId + 1, None, None>>, <<1, 1, "n", None>>}

GetUsers(creds, filters) ==
    \E cr \in creds, f \in filters :
        \E order \in Orders(get_users_rows(db, f[3], f[4])) :
            Answer("get_users", cr[1], cr[2], 0, 0,
                   Out(get_users(db, f[1], f[2], f[3], f[4], order), db))

GetUser(creds) ==
    \E cr \in creds, user_id \in UserIds :
        Answer("get_user", cr[1], cr[2], 0, user_id, Out(get_user(db, user_id), db))

UpdateUser(creds, updates) ==
    \E cr \in creds, user_id \in UserIds, user_update \in updates :
        AnswerBody("update_user", cr[1], cr[2], 0, user_id, user_update,
                   update_user(db, user_id, user_update))

DeleteUser(creds) ==
    \E cr \in creds, user_id \in UserIds :
        Answer("delete_user", cr[1], cr[2], 0, user_id, delete_user(db, user_id))

GetUserTasks(creds, statuses) ==
    \E cr \in creds, user_id \in UserIds, status \in statuses :
        \E order \in Orders(get_user_tasks_rows(db, user_id, status)) :
            Answer("get_user_tasks", cr[1], cr[2], 0, user_id,
                   Out(get_user_tasks(db, user_id, status, order), db))

AssignTaskToUser(creds) ==
    \E cr \in creds, user_id \in UserIds, task_id \in TaskIds :
        Answer("assign_task_to_user", cr[1], cr[2], task_id, user_id,
               assign_task_to_user(db, user_id, task_id))

RemoveTaskFromUser(creds) ==
    \E cr \in creds, user_id \in UserIds, task_id \in TaskIds :
        Answer("remove_task_from_user", cr[1], cr[2], task_id, user_id,
               remove_task_from_user(db, user_id, task_id))

(***************************************************************************)
(* Actions of routers/auth.py                                              *)
(***************************************************************************)
\* UserLogin bodies; "zed" is the username of nobody
Logins == [username : Usernames \cup {"zed"}, password : {"password123", "newpassword456"}]

\* The tokens a client may send where an access token is expected: the one a
\* login gave it, and tokens made or forged otherwise
AuthTokens ==
    CallerTokens \cup
    {jar.access_token,
     create_refresh_token(StrSub(1), now),
     JwtEncode(StrSub(1), "access", now - 1),
     [create_access_token(StrSub(1), now) EXCEPT !.sig = "bad"],
     create_access_token(NoSub, now),
     create_access_token(WordSub, now),
     Malformed}

AuthHeaders == {NoHeader, Basic, Bearer(NoToken)} \cup {Bearer(t) : t \in AuthTokens}

AuthCookies == {NoToken} \cup AuthTokens

Login ==
    \E credentials \in Logins :
        LET out == login(db, credentials, now)
        IN  /\ req' = [Request("login", NoHeader, NoToken, 0, 0) EXCEPT
                          !.username = credentials.username]
            /\ resp' = out
            /\ jar' = IF out.status = 200
                      THEN [access_token |-> out.access_token,
                            refresh_token |-> out.refresh_token]
                      ELSE jar
            /\ UNCHANGED <<db, now, pending>>

Logout ==
    /\ req' = Request("logout", NoHeader, jar.access_token, 0, 0)
    /\ resp' = logout
    /\ jar' = NoJar
    /\ UNCHANGED <<db, now, pending>>

\* A few of them, one per way get_current_user looks at its two sources
FewAuthHeaders ==
    {NoHeader, Basic, Bearer(NoToken), Bearer(create_access_token(StrSub(1), now)),
     Bearer(Malformed), Bearer(jar.access_token)}

FewAuthCookies == {NoToken, jar.access_token} \cup CallerTokens

GetMe(headers, cookies) ==
    \E h \in headers, c \in cookies :
        LET auth == get_current_user(h, c, db, now)
        IN  Answer("get_me", h, c, 0, 0, Gated(auth, Out(get_me(auth.user), db)))

(***************************************************************************)
(* The clock                                                               *)
(***************************************************************************)
TickSteps == {1, ACCESS_TOKEN_EXPIRE_MINUTES}

RECURSIVE Instants(_)
Instants(k) ==
    IF k = 0 THEN {0}
    ELSE Instants(k - 1) \cup {t + step : t \in Instants(k - 1), step \in TickSteps}

Tick ==
    \E step \in TickSteps :
        /\ now + step \in Instants(MaxTicks)
        /\ now' = now + step
        /\ UNCHANGED <<db, jar, req, resp, pending>>

\* PasswordChange bodies
PasswordChanges ==
    [current_password : {"password123", "newpassword456"}, new_password : Passwords]

ChangePassword(creds, bodies) ==
    \E cr \in creds, password_data \in bodies :
        LET auth == get_current_user(cr[1], cr[2], db, now)
        IN  AnswerBody("change_password", cr[1], cr[2], 0, 0, password_data,
                       Gated(auth, change_password(db, auth.user, password_data)))

\* The clock of the token specification: steps long enough to pass an expiry
ElapseSteps == {1, ACCESS_TOKEN_EXPIRE_MINUTES, REFRESH_TOKEN_EXPIRE_DAYS * MinutesPerDay}

RECURSIVE ElapseInstants(_)
ElapseInstants(k) ==
    IF k = 0 THEN {0}
    ELSE ElapseInstants(k - 1)
             \cup {t + step : t \in ElapseInstants(k - 1), step \in ElapseSteps}

Elapse ==
    \E step \in ElapseSteps :
        /\ now + step \in ElapseInstants(MaxTicks + 1)
        /\ now' = now + step
        /\ UNCHANGED <<db, jar, req, resp, pending>>

\* The instants at which a token a client holds was issued
IssuedAt == {0, now}

\* Tokens issued for a string subject, as a client holds them
HeldAccessTokens == {create_access_token(StrSub(i), t) : i \in UserIds, t \in IssuedAt}

HeldRefreshTokens == {create_refresh_token(StrSub(i), t) : i \in UserIds, t \in IssuedAt}

\* What a client may send as the refresh_token cookie
RefreshCookies ==
    HeldRefreshTokens \cup
    {NoToken, jar.refresh_token, Malformed,
     create_access_token(StrSub(1), now),
     create_refresh_token(NoSub, now),
     [create_refresh_token(StrSub(1), now) EXCEPT !.sig = "bad"]}

\* What a client may send as a Bearer header in the token specification
TokenHeaders ==
    {Bearer(t) : t \in HeldAccessTokens \cup {create_refresh_token(StrSub(1), now)}}

Refresh(tokens) ==
    \E refresh_token \in tokens :
        LET out == refresh(db, refresh_token, now)
        IN  /\ req' = Request("refresh", NoHeader, refresh_token, 0, 0)
            /\ resp' = out
            /\ jar' = IF out.status = 200
                      THEN [access_token |-> out.access_token,
                            refresh_token |-> out.refresh_token]
                      ELSE jar
            /\ UNCHANGED <<db, now, pending>>

(***************************************************************************)
(* Requests in flight.  A handler that reads, checks and then commits is   *)
(* two steps when requests run concurrently: Begin runs its queries and    *)
(* checks against the database as it is, Commit sends its writes to the    *)
(* database as it is by then.  A request the checks reject is answered in  *)
(* its Begin step.                                                         *)
(***************************************************************************)
Slots == 1..MaxInflight

NoUserModel == [id |-> 0, username |-> "", email |-> "", password |-> ""]

NoUserUpdate == [set |-> {}, username |-> None, email |-> None]

Idle ==
    [op |-> "", header |-> NoHeader, cookie |-> NoToken, task_id |-> 0, user_id |-> 0,
     user |-> NoUserModel, user_update |-> NoUserUpdate, loaded |-> NoUser]

\* The request of slot i is answered now.
AnswerSlot(i, r, out) ==
    /\ req' = Request(r.op, r.header, r.cookie, r.task_id, r.user_id)
    /\ resp' = out.resp
    /\ db' = out.db
    /\ pending' = [pending EXCEPT ![i] = Idle]
    /\ UNCHANGED <<now, jar>>

\* The request r goes on to its commit if its checks passed (status 0).
BeginSlot(i, r, checked) ==
    /\ pending[i] = Idle
    /\ \A j \in Slots : j < i => pending[j] # Idle
    /\ IF checked.status = 0
       THEN /\ pending' = [pending EXCEPT ![i] = r]
            /\ UNCHANGED <<db, now, jar, req, resp>>
       ELSE AnswerSlot(i, r, Out(checked, db))

BeginCreateUser(models) ==
    \E i \in Slots, user \in models :
        \E existing \in FirstOf(create_user_matches(db, user)) :
            BeginSlot(i, [Idle EXCEPT !.op = "create_user", !.user_id = user.id, !.user = user],
                      create_user_check(db, user, existing))

CommitCreateUser ==
    \E i \in Slots, new_id \in FreeUserIds \cup {0} :
        /\ pending[i].op = "create_user"
        /\ (pending[i].user.id = 0) => (new_id # 0)
        /\ (pending[i].user.id # 0) => (new_id = 0)
        /\ AnswerSlot(i, pending[i], create_user_commit(db, pending[i].user, new_id))

BeginUpdateUser(updates) ==
    \E i \in Slots, user_id \in UserIds, user_update \in updates :
        BeginSlot(i, [Idle EXCEPT !.op = "update_user", !.user_id = user_id,
                                  !.user_update = user_update,
                                  !.loaded = QueryUserById(db, user_id)],
                  update_user_check(db, user_id, user_update))

CommitUpdateUser ==
    \E i \in Slots :
        /\ pending[i].op = "update_user"
        /\ AnswerSlot(i, pending[i],
                      update_user_commit(db, pending[i].loaded, pending[i].user_update))

BeginAssignUserToTask ==
    \E i \in Slots, cr \in Creds, task_id \in TaskIds, user_id \in UserIds :
        LET auth == get_current_user(cr[1], cr[2], db, now)
        IN  BeginSlot(i, [Idle EXCEPT !.op = "assign_user_to_task", !.header = cr[1],
                                      !.cookie = cr[2], !.task_id = task_id,
                                      !.user_id = user_id],
                      IF auth.status = 200
                      THEN assign_user_to_task_check(db, auth.user, task_id, user_id)
                      ELSE auth)

CommitAssignUserToTask ==
    \E i \in Slots :
        /\ pending[i].op = "assign_user_to_task"
        /\ AnswerSlot(i, pending[i],
                      assign_user_to_task_commit(db, pending[i].task_id, pending[i].user_id))

BeginAssignTaskToUser ==
    \E i \in Slots, user_id \in UserIds, task_id \in TaskIds :
        BeginSlot(i, [Idle EXCEPT !.op = "assign_task_to_user", !.task_id = task_id,
                                  !.user_id = user_id],
                  assign_task_to_user_check(db, user_id, task_id))

CommitAssignTaskToUser ==
    \E i \in Slots :
        /\ pending[i].op = "assign_task_to_user"
        /\ AnswerSlot(i, pending[i],
                      assign_task_to_user_commit(db, pending[i].user_id, pending[i].task_id))

(***************************************************************************)
(* Initial states and specifications                                        *)
(***************************************************************************)
SeedUser(i, active) ==
    [id |-> i, username |-> SeedName(i), email |-> SeedEmail(i),
     password_hash |-> BcryptHash("password123"), is_active |-> active]

InitRest ==
    /\ now = 0
    /\ jar = NoJar
    /\ req = Request("", NoHeader, NoToken, 0, 0)
    /\ resp = Response(0, "")
    /\ pending = [i \in Slots |-> Idle]

\* An empty database
Init ==
    /\ db = EmptyDb
    /\ InitRest

\* A database that holds the users 1..MaxUserId, the last one active or not
InitSeeded ==
    /\ \E last \in BOOLEAN :
           db = [EmptyDb EXCEPT
                    !.users = {SeedUser(i, (i < MaxUserId) \/ last) : i \in UserIds}]
    /\ InitRest

TasksNext ==
    \/ CreateTask(TaskModels)
    \/ GetTasks(TaskFilters)
    \/ GetTask
    \/ UpdateTask(TaskUpdates)
    \/ DeleteTask
    \/ GetTaskUsers
    \/ AssignUserToTask
    \/ RemoveUserFromTask
    \/ UpdateTaskStatus(TaskStatus)

UsersNext ==
    \/ CreateUser(Creds, UserModels)
    \/ GetUsers(Creds, UserListFilters)
    \/ GetUser(Creds)
    \/ UpdateUser(Creds, UserUpdates)
    \/ DeleteUser(Creds)
    \/ GetUserTasks(Creds, StatusFilters)
    \/ AssignTaskToUser(Creds)
    \/ RemoveTaskFromUser(Creds)

AuthNext ==
    \/ Login
    \/ Logout
    \/ GetMe(AuthHeaders, AuthCookies)

Next ==
    \/ TasksNext
    \/ UsersNext
    \/ AuthNext
    \/ Tick

Spec == Init /\ [][Next]_vars

\* Tasks and assignments over a seeded population of users
NextTasks ==
    \/ CreateTask(FewTaskModels)
    \/ GetTasks(FewTaskFilters)
    \/ GetTask
    \/ UpdateTask(FewTaskUpdates)
    \/ DeleteTask
    \/ GetTaskUsers
    \/ AssignUserToTask
    \/ RemoveUserFromTask
    \/ UpdateTaskStatus(FewStatuses)
    \/ DeleteUser(Anonymous)
    \/ AssignTaskToUser(Anonymous)
    \/ RemoveTaskFromUser(Anonymous)

SpecTasks == InitSeeded /\ [][NextTasks]_vars

\* the tasks router with every body create_task accepts, the description
\* left out included
MinimalTaskModels == {m \in TaskModels : m.title = "Task" /\ m.status = "todo"}

NextCreate ==
    \/ CreateTask(MinimalTaskModels)
    \/ DeleteTask
    \/ AssignUserToTask

SpecCreate == InitSeeded /\ [][NextCreate]_vars

\* accounts come and go, under ids the client may choose, while clients hold
\* the tokens made for the seeded accounts and the ones login answered
NextAccounts ==
    \/ CreateUser(Anonymous, FewUserModels)
    \/ DeleteUser(Anonymous)
    \/ Login
    \/ Refresh(RefreshCookies)
    \/ GetMe(TokenHeaders \cup {Bearer(jar.access_token)}, {NoToken})

SpecAccounts == InitSeeded /\ [][NextAccounts]_vars

\* a client logs in, refreshes, changes the password and logs out, and presents
\* the tokens it holds
NextRevoke ==
    \/ Login
    \/ Logout
    \/ Refresh(RefreshCookies)
    \/ ChangePassword(Creds \cup {<<Bearer(jar.access_token), NoToken>>}, PasswordChanges)
    \/ GetMe(TokenHeaders \cup {Bearer(jar.access_token)}, {NoToken})

SpecRevoke == InitSeeded /\ [][NextRevoke]_vars

\* listing, over tasks of both titles and two statuses
NextList ==
    \/ CreateTask({m \in TaskModels : m.id = 0 /\ m.description # None
                                        /\ m.status \in {"todo", "completed"}})
    \/ GetTasks(ListFilters)
    \/ AssignUserToTask
    \/ DeleteTask

SpecList == InitSeeded /\ [][NextList]_vars

\* the handlers that write the fields of a task, with every body update_task
\* accepts, while the clock advances
SomeTaskUpdates ==
    {u \in TaskUpdates : /\ u.title \in {None, "Buy milk"}
                         /\ ("description" \notin u.set \/ u.set = {"description"})
                         /\ u.status \in {None, "in_progress"}}

NextUpdate ==
    \/ CreateTask({m \in FewTaskModels : m.id = 0})
    \/ UpdateTask(SomeTaskUpdates)
    \/ Tick

SpecUpdate == InitSeeded /\ [][NextUpdate]_vars

\* the bodies of update_task that carry the status alone, null included
StatusTaskUpdates ==
    {u \in TaskUpdates : u.set = {"status"}}

\* the three handlers that write the status of a task, with every status
NextStatus ==
    \/ CreateTask({m \in TaskModels : m.id = 0 /\ m.title = "Task" /\ m.description # None})
    \/ UpdateTask(StatusTaskUpdates)
    \/ UpdateTaskStatus(TaskStatus)

SpecStatus == InitSeeded /\ [][NextStatus]_vars

\* The users router from an empty database
NextUsers ==
    \/ CreateUser(Anonymous, FewUserModels)
    \/ GetUsers(Anonymous, FewUserListFilters)
    \/ GetUser(Anonymous)
    \/ UpdateUser(Anonymous, UserUpdates)
    \/ DeleteUser(Anonymous)
    \/ Login

SpecUsers == Init /\ [][NextUsers]_vars

\* Authentication over a seeded population of users
NextAuth ==
    \/ Login
    \/ Logout
    \/ GetMe(FewAuthHeaders, FewAuthCookies)
    \/ DeleteUser(Anonymous)
    \/ Tick

SpecAuth == InitSeeded /\ [][NextAuth]_vars

\* Tokens over a seeded population of users, with a clock that passes expiries
NextTokens ==
    \/ Login
    \/ Refresh(RefreshCookies)
    \/ GetMe(TokenHeaders, {NoToken})
    \/ DeleteUser(Anonymous)
    \/ Elapse

SpecTokens == InitSeeded /\ [][NextTokens]_vars

\* UserModel bodies with every password, for the users of the seed
SeedUserModels ==
    {m \in UserModels : m.id = 0 /\ \E i \in UserIds : m.username = SeedName(i) /\ m.email = SeedEmail(i)}

\* Passwords: registration, password change and login over a seeded population
NextPasswords ==
    \/ CreateUser(Anonymous, SeedUserModels)
    \/ DeleteUser(Anonymous)
    \/ ChangePassword(Creds, PasswordChanges)
    \/ Login

SpecPasswords == InitSeeded /\ [][NextPasswords]_vars

\* Concurrent requests to the users router, from an empty database
NextConcUsers ==
    \/ BeginCreateUser({m \in FewUserModels : m.id = 0})
    \/ CommitCreateUser
    \/ BeginUpdateUser({u \in FewUserUpdates : None \notin {u[f] : f \in u.set}})
    \/ CommitUpdateUser
    \/ DeleteUser(Anonymous)

SpecConcUsers == Init /\ [][NextConcUsers]_vars

\* Concurrent assignment requests, over a seeded population of users
NextConcLinks ==
    \/ CreateTask({m \in FewTaskModels : m.id = 0})
    \/ BeginAssignUserToTask
    \/ CommitAssignUserToTask
    \/ BeginAssignTaskToUser
    \/ CommitAssignTaskToUser
    \/ RemoveTaskFromUser(Anonymous)
    \/ DeleteTask

SpecConcLinks == InitSeeded /\ [][NextConcLinks]_vars

\* Both routers with a few bodies each, from an empty database
OwnUserModels == {m \in FewUserModels : \E i \in UserIds : m = [id |-> 0, username |-> SeedName(i), email |-> SeedEmail(i), password |-> "password123"]}

NextRouters ==
    \/ CreateTask({m \in FewTaskModels : m.id = 0})
    \/ GetTasks({<<0, MaxTaskId + 1, None, None>>})
    \/ GetTask
    \/ UpdateTask({u \in FewTaskUpdates : u.status = "completed"})
    \/ DeleteTask
    \/ GetTaskUsers
    \/ AssignUserToTask
    \/ RemoveUserFromTask
    \/ UpdateTaskStatus({"completed"})
    \/ CreateUser(Creds, OwnUserModels)
    \/ GetUsers(Creds, {<<0, MaxUserId + 1, None, None>>})
    \/ GetUser(Creds)
    \/ UpdateUser(Creds, {u \in FewUserUpdates : u.email = SeedEmail(1)})
    \/ DeleteUser(Creds)
    \/ GetUserTasks(Creds, {None})
    \/ AssignTaskToUser(Creds)
    \/ RemoveTaskFromUser(Creds)

SpecRouters == Init /\ [][NextRouters]_vars

(***************************************************************************)
(* Properties                                                              *)
(***************************************************************************)
Range(seq) == {seq[i] : i \in DOMAIN seq}

\* The rows of user_tasks: the assignment relation
Assigned(d, user_id, task_id) == d.user_tasks[<<user_id, task_id>>] > 0

\* The task requests that go through get_task before they do anything else
TaskAccessOps ==
    {"update_task", "update_task_status", "delete_task", "get_task_users",
     "assign_user_to_task", "remove_user_from_task"}

\* C1: a stored task is visible to an active stored user exactly when a row of
\* user_tasks joins them: get_task answers 200 with the task if so and 403 if
\* not, and get_tasks without filter and with a window over all rows gives
\* exactly the tasks joined to the user, in whatever order the rows come.
C1_VisibleIffAssigned ==
    \A u \in db.users :
        u.is_active =>
            /\ \A t \in db.tasks :
                   LET got == get_task(db, u, t.id)
                   IN  /\ (got.status = 200) <=> Assigned(db, u.id, t.id)
                       /\ (got.status = 200) => (got.task = t)
                       /\ ~Assigned(db, u.id, t.id) => (got.status = 403)
            /\ \A order \in Orders(get_tasks_rows(db, u, None, None)) :
                   LET listed == get_tasks(db, u, 0, MaxTaskId + 1, None, None, order)
                   IN  /\ listed.status = 200
                       /\ Range(listed.tasks) = {t \in db.tasks : Assigned(db, u.id, t.id)}

\* An active caller was refused a stored task that is assigned to somebody else,
\* while another stored task is assigned to the caller.
C1_Witness ==
    LET caller == get_current_user(req.header, req.cookie, db, now)
    IN  /\ req.op = "get_task"
        /\ resp.status = 403
        /\ caller.status = 200
        /\ \E t \in db.tasks :
               /\ t.id = req.task_id
               /\ ~Assigned(db, caller.user.id, t.id)
               /\ \E u \in db.users : Assigned(db, u.id, t.id)
        /\ \E t \in db.tasks : Assigned(db, caller.user.id, t.id)

\* C2: a request of TaskAccessOps by an authenticated caller who is not assigned
\* to the stored task it names is answered 403 and leaves the database (the
\* task's fields, its existence, the assignments) as it was.
C2_Step ==
    LET caller == get_current_user(req'.header, req'.cookie, db, now)
    IN  ( /\ req'.op \in TaskAccessOps
          /\ caller.status = 200
          /\ QueryTaskById(db, req'.task_id) # NoTask
          /\ ~Assigned(db, caller.user.id, req'.task_id) )
        => (resp'.status = 403 /\ db' = db)

\* C2: every step answers a request of TaskAccessOps by an authenticated caller
\* who is not assigned to the stored task with 403 and changes nothing stored.
C2_ForbiddenChangesNothing == [][C2_Step]_vars

\* A caller who is not assigned was refused the deletion of a stored task that
\* has assignees.
C2_Witness ==
    LET caller == get_current_user(req.header, req.cookie, db, now)
    IN  /\ req.op = "delete_task"
        /\ resp.status = 403
        /\ caller.status = 200
        /\ QueryTaskById(db, req.task_id) # NoTask
        /\ ~Assigned(db, caller.user.id, req.task_id)
        /\ assigned_users(db, req.task_id) # {}

TaskOps == TaskAccessOps \cup {"create_task", "get_tasks", "get_task"}

UserOps ==
    {"create_user", "get_users", "get_user", "update_user", "delete_user",
     "get_user_tasks", "assign_task_to_user", "remove_task_from_user"}

\* C3, as claimed: a request to any handler of the two routers that carries no
\* valid access token is answered 401 and changes nothing stored.
C3_AllGatedStep ==
    LET caller == get_current_user(req'.header, req'.cookie, db, now)
    IN  (req'.op \in TaskOps \cup UserOps /\ caller.status # 200)
        => (resp'.status = 401 /\ db' = db)

\* C3, as claimed: every step answers a request without a valid access token,
\* to either router, with 401 and changes nothing stored.
C3_AllGated == [][C3_AllGatedStep]_vars

\* C3, amended: a request to a handler of the tasks router that carries no valid
\* access token is answered 401 and changes nothing stored; the handlers of the
\* users router are not gated and never answer 401.
C3_TasksGatedStep ==
    LET caller == get_current_user(req'.header, req'.cookie, db, now)
    IN  /\ (req'.op \in TaskOps /\ caller.status # 200)
           => (resp'.status = 401 /\ db' = db)
        /\ (req'.op \in UserOps) => (resp'.status # 401)

\* C3, amended: every step answers a tasks-router request without a valid
\* access token with 401 and changes nothing stored, and no users-router request
\* is answered 401.
C3_TasksGated == [][C3_TasksGatedStep]_vars

\* A request without credentials to delete a stored task was answered 401.
C3_Witness ==
    /\ req.op = "delete_task"
    /\ req.header = NoHeader
    /\ req.cookie = NoToken
    /\ resp.status = 401
    /\ QueryTaskById(db, req.task_id) # NoTask

\* C4: a request to assign a pair that is already a row of user_tasks, through
\* assign_task_to_user or through assign_user_to_task by a caller who has access
\* to the task, is answered 400 and leaves user_tasks as it was, with the pair
\* in it once.
C4_Step ==
    LET caller == get_current_user(req'.header, req'.cookie, db, now)
        pair == <<req'.user_id, req'.task_id>>
        viaUser == req'.op = "assign_task_to_user"
        viaTask == /\ req'.op = "assign_user_to_task"
                   /\ caller.status = 200
                   /\ Assigned(db, caller.user.id, req'.task_id)
    IN  ((viaUser \/ viaTask) /\ Assigned(db, pair[1], pair[2]))
        => /\ resp'.status = 400
           /\ db'.user_tasks = db.user_tasks
           /\ db'.user_tasks[pair] = 1

\* C4: every step answers the assignment of a pair already in user_tasks with
\* 400 and leaves user_tasks as it was, the pair in it once.
C4_DuplicateRejected == [][C4_Step]_vars

\* A caller assigned to a task asked to assign another user who already was.
C4_Witness ==
    LET caller == get_current_user(req.header, req.cookie, db, now)
    IN  /\ req.op = "assign_user_to_task"
        /\ resp.status = 400
        /\ resp.detail = "User already assigned to this task"
        /\ caller.status = 200
        /\ caller.user.id # req.user_id
        /\ db.user_tasks[<<req.user_id, req.task_id>>] = 1

\* C5: a delete_user that succeeds removes the user's row and the rows of
\* user_tasks that name the user, and nothing else; a delete_task that succeeds
\* removes the task's row and the rows of user_tasks that name the task, and
\* nothing else; so every row of user_tasks names a stored user and a stored task.
C5_Step ==
    /\ (req'.op = "delete_user" /\ resp'.status = 204)
       => /\ db'.users = db.users \ {QueryUserById(db, req'.user_id)}
          /\ db'.tasks = db.tasks
          /\ db'.user_tasks =
                 [p \in Pairs |-> IF p[1] = req'.user_id THEN 0 ELSE db.user_tasks[p]]
    /\ (req'.op = "delete_task" /\ resp'.status = 204)
       => /\ db'.tasks = db.tasks \ {QueryTaskById(db, req'.task_id)}
          /\ db'.users = db.users
          /\ db'.user_tasks =
                 [p \in Pairs |-> IF p[2] = req'.task_id THEN 0 ELSE db.user_tasks[p]]

C5_RowsReferStored ==
    \A p \in Pairs :
        Assigned(db, p[1], p[2])
        => (QueryUserById(db, p[1]) # NoUser /\ QueryTaskById(db, p[2]) # NoTask)

\* C5: every row of user_tasks names a stored user and a stored task, and every
\* successful delete_user or delete_task removes the row deleted and the rows of
\* user_tasks that name it, and nothing else.
C5_DeleteCascades == []C5_RowsReferStored /\ [][C5_Step]_vars

\* A user was deleted; a task is left stored with nobody assigned, and a row of
\* user_tasks of another user is left too.
C5_Witness ==
    /\ req.op = "delete_user"
    /\ resp.status = 204
    /\ \E t \in db.tasks : \A u \in UserIds : ~Assigned(db, u, t.id)
    /\ \E p \in Pairs : Assigned(db, p[1], p[2])

\* The stored user a login names, NoUser when the username is nobody's
UserNamed(d, username) ==
    IF \E u \in d.users : u.username = username
    THEN CHOOSE u \in d.users : u.username = username
    ELSE NoUser

\* C6: a login whose password does not verify (or whose username is nobody's) is
\* answered 401 'Incorrect username or password' with no token, the same for an
\* active user, an inactive user and an unknown username; a login that is not
\* answered 200 sets no cookie.
C6_SameAnswer ==
    \A credentials \in [username : Usernames \cup {"zed"}, password : Passwords] :
        LET user == UserNamed(db, credentials.username)
            wrong == \/ user = NoUser
                     \/ ~verify_password(credentials.password, user.password_hash)
        IN  wrong => (login(db, credentials, now)
                          = Response(401, "Incorrect username or password"))

C6_Step == (req'.op = "login" /\ resp'.status # 200) => (jar' = jar)

\* C6: in every state a login that does not verify gets the one generic 401,
\* whoever the username is, and no step of a refused login sets a cookie.
C6_WrongPasswordGeneric == []C6_SameAnswer /\ [][C6_Step]_vars

\* A login with the username of a stored inactive user and a wrong password got
\* the generic answer, while an active user is stored too.
C6_Witness ==
    /\ req.op = "login"
    /\ resp = Response(401, "Incorrect username or password")
    /\ UserNamed(db, req.username) # NoUser
    /\ ~UserNamed(db, req.username).is_active
    /\ \E u \in db.users : u.is_active

\* C7: no two stored users have the same username, and no two the same email,
\* whatever the interleaving of create_user, update_user and delete_user.
C7_UniqueNames ==
    \A u1, u2 \in db.users :
        (u1 # u2) => (u1.username # u2.username /\ u1.email # u2.email)

\* A create_user that had passed its existence query was refused at commit.
C7_Witness ==
    /\ req.op = "create_user"
    /\ resp.status = 500
    /\ db.users # {}

\* C8: user_tasks never holds a (user, task) pair more than once, whatever the
\* interleaving of the assignment requests.
C8_PairOnce == \A p \in Pairs : db.user_tasks[p] <= 1

\* An assignment that had passed its membership test was refused at commit,
\* the pair being there already.
C8_Witness ==
    /\ req.op \in {"assign_user_to_task", "assign_task_to_user"}
    /\ resp.status = 500
    /\ <<req.user_id, req.task_id>> \in Pairs
    /\ db.user_tasks[<<req.user_id, req.task_id>>] = 1

\* C9, as claimed: get_current_user gives the stored user named by the subject
\* exactly when the token is a correctly signed, unexpired access token of a
\* stored active user, and 401 otherwise; and the access token a login answered,
\* sent as a Bearer header, resolves to the user who logged in.
C9_AuthResolution ==
    /\ \A h \in AuthHeaders, c \in AuthCookies :
           LET token == ExtractToken(h, c)
               got == get_current_user(h, c, db, now)
               user == QueryUserById(db, token.sub.v)
               good == /\ token.sig = "ok"
                       /\ token.type = "access"
                       /\ token.exp >= now
                       /\ token.sub.kind \in {"int", "str"}
                       /\ user # NoUser
                       /\ user.is_active
           IN  IF good THEN got.status = 200 /\ got.user = user
               ELSE got.status = 401
    /\ (req.op = "login" /\ resp.status = 200 /\ resp.access_token.exp >= now
            /\ UserNamed(db, req.username) # NoUser)
       => LET me == get_current_user(Bearer(resp.access_token), NoToken, db, now)
          IN  me.status = 200 /\ me.user = UserNamed(db, req.username)

\* C10: when the Authorization header is a Bearer header, its token is the one
\* verified and the cookie plays no part, so a bad Bearer token with a good
\* cookie is answered 401; the cookie is the token verified when there is no
\* Bearer header.
C10_HeaderFirst ==
    \A h \in AuthHeaders, c \in AuthCookies :
        /\ (h.scheme = "Bearer")
           => /\ ExtractToken(h, c) = h.tok
              /\ get_current_user(h, c, db, now) = get_current_user(h, NoToken, db, now)
        /\ (h.scheme = "Bearer" /\ get_current_user(h, NoToken, db, now).status # 200)
           => get_current_user(h, c, db, now).status = 401
        /\ (h.scheme # "Bearer")
           => get_current_user(h, c, db, now) = get_current_user(NoHeader, c, db, now)

\* /auth/me was asked with a bad Bearer token and a cookie that alone would
\* authenticate, and answered 401.
C10_Witness ==
    /\ req.op = "get_me"
    /\ req.header = Bearer(Malformed)
    /\ get_current_user(NoHeader, req.cookie, db, now).status = 200
    /\ resp.status = 401

\* Every token a client can present: any subject, either type tag, expired or
\* not, signed with the server's key or another
AnyTokens ==
    [sub : {NoSub, WordSub} \cup {StrSub(i) : i \in UserIds} \cup {IntSub(i) : i \in UserIds},
     type : {"access", "refresh"},
     exp : {now - 1, now, now + ACCESS_TOKEN_EXPIRE_MINUTES},
     sig : {"ok", "bad"}]

C11_RefusedState ==
    \A t \in AnyTokens :
        /\ (t.type # "access")
           => /\ get_current_user(Bearer(t), NoToken, db, now).status = 401
              /\ get_current_user(NoHeader, t, db, now).status = 401
        /\ (t.type # "refresh")
           => refresh(db, t, now) = Response(401, "Invalid or expired refresh token")

C11_Step ==
    (req'.op = "refresh" /\ req'.cookie.type # "refresh")
    => (resp'.status = 401 /\ resp'.access_token = NoToken /\ jar' = jar)

\* C11: a token whose type tag is not the expected one is refused: no refresh
\* token authenticates a request (401), and a refresh request whose cookie is not
\* a refresh token is answered 401, with no token in the answer and no cookie set.
C11_TypeTagChecked == []C11_RefusedState /\ [][C11_Step]_vars

\* The refresh_token cookie was an access token that is signed, unexpired and
\* names a stored active user, and the request was answered 401.
C11_Witness ==
    /\ req.op = "refresh"
    /\ resp.status = 401
    /\ req.cookie.type = "access"
    /\ req.cookie.sig = "ok"
    /\ req.cookie.exp >= now
    /\ req.cookie.sub.kind = "str"
    /\ QueryUserById(db, req.cookie.sub.v) # NoUser
    /\ QueryUserById(db, req.cookie.sub.v).is_active

\* The instants up to now at which a token may have been issued
PastInstants == {t \in ElapseInstants(MaxTicks + 1) : t <= now}

C12_AcceptedState ==
    \A t \in PastInstants, i \in UserIds :
        LET access == create_access_token(StrSub(i), t)
            renew == create_refresh_token(StrSub(i), t)
            user == QueryUserById(db, i)
            known == user # NoUser /\ user.is_active
            accessFresh == now - t <= ACCESS_TOKEN_EXPIRE_MINUTES
            renewFresh == now - t <= REFRESH_TOKEN_EXPIRE_DAYS * MinutesPerDay
        IN  /\ verify_token(access, "access", now) <=> accessFresh
            /\ verify_token(renew, "refresh", now) <=> renewFresh
            /\ (get_current_user(Bearer(access), NoToken, db, now).status = 200)
                   <=> (accessFresh /\ known)
            /\ (get_current_user(NoHeader, access, db, now).status = 200)
                   <=> (accessFresh /\ known)
            /\ (refresh(db, renew, now).status = 200) <=> (renewFresh /\ known)
            /\ ~accessFresh
                   => get_current_user(Bearer(access), NoToken, db, now)
                          = Response(401, "Invalid or expired token")
            /\ ~renewFresh
                   => refresh(db, renew, now)
                          = Response(401, "Invalid or expired refresh token")

\* A step that answers a request leaves the clock alone.
C12_Step ==
    (now' = now)
    => /\ (req'.op = "get_me" /\ req'.header.scheme = "Bearer"
               /\ req'.header.tok.exp < now)
          => resp'.status = 401
       /\ (req'.op = "refresh" /\ req'.cookie # NoToken /\ req'.cookie.exp < now)
          => (resp'.status = 401 /\ jar' = jar)

\* C12: an access token is accepted exactly while the clock is within
\* ACCESS_TOKEN_EXPIRE_MINUTES of its issue, a refresh token within
\* REFRESH_TOKEN_EXPIRE_DAYS; past its expiry a token fails verification and
\* every request that presents it is answered 401.
C12_ExpiryEnforced == []C12_AcceptedState /\ [][C12_Step]_vars

\* An access token of a stored active user, issued at 0, was presented one
\* minute after its expiry and refused.
C12_Witness ==
    /\ req.op = "get_me"
    /\ resp = Response(401, "Invalid or expired token")
    /\ req.header.scheme = "Bearer"
    /\ \E i \in UserIds :
           /\ req.header.tok = create_access_token(StrSub(i), 0)
           /\ QueryUserById(db, i) # NoUser
           /\ QueryUserById(db, i).is_active
    /\ now = ACCESS_TOKEN_EXPIRE_MINUTES + 1

C13_LoginState ==
    \A credentials \in [username : Usernames \cup {"zed"}, password : Passwords] :
        LET named == {u \in db.users : u.username = credentials.username}
            right == {u \in named : verify_password(credentials.password, u.password_hash)}
            out == login(db, credentials, now)
        IN  /\ (out.status = 200) <=> (\E u \in right : u.is_active)
            /\ \A u \in right :
                   IF u.is_active
                   THEN /\ out.access_token.sub.v = u.id
                        /\ out.access_token.type = "access"
                        /\ out.access_token.sig = "ok"
                        /\ out.refresh_token.sub.v = u.id
                        /\ out.refresh_token.type = "refresh"
                        /\ out.refresh_token.sig = "ok"
                   ELSE out = Response(401, "User account is inactive")
            /\ (out.status # 200)
                   => (out.access_token = NoToken /\ out.refresh_token = NoToken)

C13_Step ==
    (req'.op = "login")
    => IF resp'.status = 200
       THEN jar' = [access_token |-> resp'.access_token,
                    refresh_token |-> resp'.refresh_token]
       ELSE jar' = jar

\* C13: login answers 200 with an access and a refresh token whose subject is
\* the user's id, in the body and as cookies, exactly when the username is a
\* stored user's, the password verifies and the user is active; a stored
\* inactive user with the right password gets 401 'User account is inactive'
\* and no token.
C13_LoginOutcome == []C13_LoginState /\ [][C13_Step]_vars

\* An inactive stored user logged in with the right password and was refused,
\* with no cookie set.
C13_Witness ==
    /\ req.op = "login"
    /\ resp = Response(401, "User account is inactive")
    /\ jar = NoJar
    /\ \E u \in db.users :
           /\ u.username = req.username
           /\ ~u.is_active
           /\ verify_password("password123", u.password_hash)

\* C14, as claimed: refresh answers 200 with new tokens for the same user exactly
\* when the cookie is a correctly signed, unexpired refresh token whose subject
\* is a stored active user (the refresh token a login set among them); without
\* a cookie it answers 401 'Refresh token missing', and otherwise 401 with no
\* token.
C14_RefreshOutcome ==
    \A refresh_token \in RefreshCookies :
        LET out == refresh(db, refresh_token, now)
            user == QueryUserById(db, refresh_token.sub.v)
            good == /\ refresh_token.sig = "ok"
                    /\ refresh_token.type = "refresh"
                    /\ refresh_token.exp >= now
                    /\ refresh_token.sub.kind \in {"int", "str"}
                    /\ user # NoUser
                    /\ user.is_active
        IN  IF refresh_token = NoToken
            THEN out = Response(401, "Refresh token missing")
            ELSE IF good
            THEN /\ out.status = 200
                 /\ out.access_token = create_access_token(IntSub(user.id), now)
                 /\ out.refresh_token = create_refresh_token(IntSub(user.id), now)
            ELSE /\ out.status = 401
                 /\ out.access_token = NoToken
                 /\ out.refresh_token = NoToken

\* What a change_password step of an authenticated caller does to the database,
\* but for what a later login with the old password gets
C15_Change(caller, body) ==
    LET right == verify_password(body.current_password, caller.password_hash)
        acceptable == validate_password_length(body.new_password) = "ok"
        after == QueryUserById(db', caller.id)
    IN  /\ (after.password_hash # caller.password_hash) => (right /\ acceptable)
        /\ (right /\ acceptable)
           => /\ resp'.status = 200
              /\ after = [caller EXCEPT !.password_hash = BcryptHash(body.new_password)]
              /\ login(db', [username |-> caller.username,
                             password |-> body.new_password], now).status = 200
        /\ ~right
           => (resp' = Response(400, "Current password is incorrect") /\ db' = db)
        /\ ~(right /\ acceptable) => (db' = db)
        /\ db'.users \ {after} = db.users \ {caller}
        /\ db'.tasks = db.tasks
        /\ db'.user_tasks = db.user_tasks

C15_OldRefused(caller, body) ==
    login(db', [username |-> caller.username, password |-> body.current_password], now)
        = Response(401, "Incorrect username or password")

C15_AsClaimedStep ==
    LET auth == get_current_user(req'.header, req'.cookie, db, now)
    IN  (req'.op = "change_password" /\ auth.status = 200)
        => /\ C15_Change(auth.user, req'.body)
           /\ (resp'.status = 200) => C15_OldRefused(auth.user, req'.body)

\* C15, as claimed: change_password replaces the caller's hash exactly when the
\* current password verifies and the new one is acceptable; afterwards login
\* with the new password succeeds and login with the old one is answered 401; a
\* wrong current password gets 400 'Current password is incorrect' and changes
\* nothing; no other user's row changes.
C15_AsClaimed == [][C15_AsClaimedStep]_vars

C15_Step ==
    LET auth == get_current_user(req'.header, req'.cookie, db, now)
    IN  (req'.op = "change_password" /\ auth.status = 200)
        => /\ C15_Change(auth.user, req'.body)
           /\ (resp'.status = 200
                  /\ req'.body.new_password # req'.body.current_password)
              => C15_OldRefused(auth.user, req'.body)

\* C15, amended: the same, with login with the old password answered 401 when
\* the new password differs from the old one (a change to the same password
\* succeeds and leaves that password working).
C15_PasswordChanged == [][C15_Step]_vars

\* A caller changed the password to a different one, while another user is
\* stored with the old one.
C15_Witness ==
    LET auth == get_current_user(req.header, req.cookie, db, now)
    IN  /\ req.op = "change_password"
        /\ resp.status = 200
        /\ auth.status = 200
        /\ req.body.new_password # req.body.current_password
        /\ verify_password(req.body.new_password, auth.user.password_hash)
        /\ \E u \in db.users :
               /\ u.id # auth.user.id
               /\ verify_password(req.body.current_password, u.password_hash)

\* A password that is missing, shorter than MinPasswordChars characters or
\* longer than MAX_PASSWORD_BYTES bytes
C16_Unacceptable(password) ==
    \/ password = None
    \/ validate_password_length(password) # "ok"

C16_Step ==
    LET auth == get_current_user(req'.header, req'.cookie, db, now)
    IN  /\ (req'.op = "create_user" /\ C16_Unacceptable(req'.body.password))
           => (resp'.status = 400 /\ db' = db)
        /\ (req'.op = "change_password" /\ auth.status = 200
               /\ C16_Unacceptable(req'.body.new_password))
           => (resp'.status = 400 /\ db' = db)

\* C16, as claimed: create_user and change_password answer 400 to every
\* password that is missing, too short or longer than 72 bytes, and store
\* nothing.
C16_BadPasswordRejected == [][C16_Step]_vars

C17_Step ==
    LET user == req'.body
        nameTaken == \E u \in db.users : u.username = user.username
        emailTaken == \E u \in db.users : u.email = user.email
    IN  (req'.op = "create_user" /\ user.password # None
           /\ validate_password_length(user.password) = "ok")
        => /\ nameTaken
              => (resp' = Response(400, "Already existing username") /\ db' = db)
           /\ (~nameTaken /\ emailTaken)
              => (resp' = Response(400, "Already existing email") /\ db' = db)

\* C17, as claimed: create_user with the username of a stored user is answered
\* 400 with the detail that names the username, and with a fresh username and
\* the email of a stored user 400 with the detail that names the email,
\* whoever else is stored; no user is created.
C17_DuplicateNamed == [][C17_Step]_vars

C18_Step ==
    LET target == QueryUserById(db, req'.user_id)
        after == QueryUserById(db', req'.user_id)
        body == req'.body
        held == \/ /\ "username" \in body.set
                    /\ \E u \in db.users : u # target /\ u.username = body.username
                \/ /\ "email" \in body.set
                    /\ \E u \in db.users : u # target /\ u.email = body.email
        nulls == \/ ("username" \in body.set /\ body.username = None)
                 \/ ("email" \in body.set /\ body.email = None)
    IN  (req'.op = "update_user" /\ target # NoUser)
        => /\ (resp'.status = 400) <=> held
           /\ (~held /\ ~nulls) => (resp'.status = 200)
           /\ (resp'.status # 200) => (db' = db)
           /\ (resp'.status = 200)
              => /\ after.username
                        = IF "username" \in body.set THEN body.username ELSE target.username
                 /\ after.email
                        = IF "email" \in body.set THEN body.email ELSE target.email
                 /\ after = [target EXCEPT !.username = after.username,
                                            !.email = after.email]
                 /\ db'.users \ {after} = db.users \ {target}
                 /\ db'.tasks = db.tasks
                 /\ db'.user_tasks = db.user_tasks

\* C18: update_user of a stored user is answered 400 exactly when the username
\* or the email supplied is held by another stored user (the user's own current
\* value is accepted); a request that is refused changes no row, and one that
\* succeeds changes exactly the fields supplied, on that user only.
C18_UpdateUnique == [][C18_Step]_vars

\* An update that supplied the user's own username and the email of another
\* user was refused for the email.
C18_Witness ==
    /\ req.op = "update_user"
    /\ resp = Response(400, "Email already used")
    /\ req.body.set = {"username", "email"}
    /\ QueryUserById(db, req.user_id) # NoUser
    /\ QueryUserById(db, req.user_id).username = req.body.username
    /\ \E u \in db.users : u.id # req.user_id /\ u.email = req.body.email

C19_Step ==
    LET caller == get_current_user(req'.header, req'.cookie, db, now)
        new == db'.tasks \ db.tasks
        pair(t) == <<caller.user.id, t.id>>
    IN  (req'.op = "create_task" /\ resp'.status = 201)
        => /\ caller.status = 200
           /\ db.tasks \subseteq db'.tasks
           /\ Cardinality(new) = 1
           /\ db'.users = db.users
           /\ \A t \in new :
                  /\ QueryTaskById(db, t.id) = NoTask
                  /\ t = resp'.task
                  /\ t.title = req'.body.title
                  /\ assigned_users(db', t.id) = {caller.user}
                  /\ {x \in db'.tasks : Assigned(db', caller.user.id, x.id)}
                        = {x \in db.tasks : Assigned(db, caller.user.id, x.id)} \cup {t}
                  /\ db'.user_tasks = [db.user_tasks EXCEPT ![pair(t)] = 1]
                  /\ db.user_tasks[pair(t)] = 0

\* C19: a create_task answered 201 was sent by an authenticated caller and adds
\* exactly one task, under an id no stored task had, assigned to the caller and
\* to nobody else; the caller's tasks grow by that task, and no other task,
\* assignment or user changes.
C19_CreateAssignsCaller == [][C19_Step]_vars

\* A task was created by a caller while another task, assigned to a different
\* user and not to the caller, was stored.
C19_Witness ==
    LET caller == get_current_user(req.header, req.cookie, db, now)
    IN  /\ req.op = "create_task"
        /\ resp.status = 201
        /\ caller.status = 200
        /\ resp.task \in db.tasks
        /\ assigned_users(db, resp.task.id) = {caller.user}
        /\ \E t \in db.tasks :
               /\ t.id # resp.task.id
               /\ ~Assigned(db, caller.user.id, t.id)
               /\ assigned_users(db, t.id) # {}

C20_Step ==
    LET caller == get_current_user(req'.header, req'.cookie, db, now)
        task == req'.body
    IN  ( /\ req'.op = "create_task"
          /\ caller.status = 200
          /\ task.id = 0
          /\ task.description = None
          /\ task.status = "todo" )
        => /\ resp'.status = 201
           /\ \E t \in db'.tasks \ db.tasks : t.title = task.title /\ t.status = "todo"

\* C20: create_task by an authenticated caller with a title, no description and
\* no status (the status then defaults to todo) is answered 201 and stores a
\* task of that title whose status is todo.
C20_DescriptionOptional == [][C20_Step]_vars

C21_Step ==
    LET caller == get_current_user(req'.header, req'.cookie, db, now)
        old == QueryTaskById(db, req'.task_id)
        new == QueryTaskById(db', req'.task_id)
        body == req'.body
        nulls == \E f \in body.set : body[f] = None
    IN  ( /\ req'.op = "update_task"
          /\ now' = now
          /\ caller.status = 200
          /\ old # NoTask
          /\ Assigned(db, caller.user.id, req'.task_id) )
        => /\ (resp'.status = 200) <=> ~nulls
           /\ (resp'.status # 200) => (db' = db)
           /\ (resp'.status = 200)
              => /\ \A f \in {"title", "description", "status"} :
                        new[f] = IF f \in body.set THEN body[f] ELSE old[f]
                 /\ new.updated_at = now
                 /\ new.id = old.id
                 /\ new.created_at = old.created_at
                 /\ resp'.task = new
                 /\ db'.tasks \ {new} = db.tasks \ {old}
                 /\ db'.user_tasks = db.user_tasks
                 /\ db'.users = db.users

C22_StatusEnumerated == \A t \in db.tasks : t.status \in TaskStatus

\* An update by an assigned caller that set the status to null was refused and
\* the task kept the status an earlier request had given it.
C22_Witness ==
    LET caller == get_current_user(req.header, req.cookie, db, now)
    IN  /\ req.op = "update_task"
        /\ req.body.set = {"status"}
        /\ req.body.status = None
        /\ caller.status = 200
        /\ Assigned(db, caller.user.id, req.task_id)
        /\ resp.status = 500
        /\ QueryTaskById(db, req.task_id) # NoTask
        /\ QueryTaskById(db, req.task_id).status = "canceled"

C23_Step ==
    LET caller == get_current_user(req'.header, req'.cookie, db, now)
        noUser == QueryUserById(db, req'.user_id) = NoUser
        noTask == QueryTaskById(db, req'.task_id) = NoTask
        missing ==
            \/ /\ req'.op \in {"get_user", "update_user", "delete_user", "get_user_tasks"}
               /\ noUser
            \/ /\ req'.op \in {"assign_task_to_user", "remove_task_from_user"}
               /\ (noUser \/ noTask)
            \/ /\ req'.op \in TaskAccessOps \cup {"get_task"}
               /\ caller.status = 200
               /\ noTask
            \/ /\ req'.op \in {"assign_user_to_task", "remove_user_from_task"}
               /\ caller.status = 200
               /\ ~noTask
               /\ Assigned(db, caller.user.id, req'.task_id)
               /\ noUser
    IN  missing => (resp'.status = 404 /\ db' = db)

\* C23: a request that names a user id or a task id that is not stored (get,
\* update, delete, list the tasks of a user, assign, remove, on either router;
\* on the tasks router, by an authenticated caller) is answered 404 and changes
\* nothing stored.
C23_MissingIs404 == [][C23_Step]_vars

C24_Step ==
    LET caller == get_current_user(req'.header, req'.cookie, db, now)
        pair == <<req'.user_id, req'.task_id>>
        asked ==
            \/ req'.op = "remove_task_from_user"
            \/ /\ req'.op = "remove_user_from_task"
               /\ caller.status = 200
               /\ Assigned(db, caller.user.id, req'.task_id)
    IN  ( /\ asked
          /\ QueryUserById(db, req'.user_id) # NoUser
          /\ QueryTaskById(db, req'.task_id) # NoTask )
        => IF Assigned(db, pair[1], pair[2])
           THEN /\ resp'.status = 204
                /\ db' = [db EXCEPT !.user_tasks[pair] = 0]
           ELSE /\ resp'.status = 400
                /\ db' = db

\* C24: remove_user_from_task by an assigned caller, and remove_task_from_user,
\* naming a stored user and a stored task, delete the named (user, task) pair
\* and nothing else when the pair is in the relation (every other pair, user
\* and task stays), and are answered 400, changing nothing, when it is not.
C24_RemoveExactPair == [][C24_Step]_vars

\* An assigned caller removed another assignee from a task and is still
\* assigned to it, and the removed user still has another task.
C24_Witness ==
    LET caller == get_current_user(req.header, req.cookie, db, now)
    IN  /\ req.op = "remove_user_from_task"
        /\ resp.status = 204
        /\ caller.status = 200
        /\ req.user_id # caller.user.id
        /\ ~Assigned(db, req.user_id, req.task_id)
        /\ Assigned(db, caller.user.id, req.task_id)
        /\ \E t \in db.tasks : Assigned(db, req.user_id, t.id)

\* What response_model = UserResponse keeps of a User row: the fields of the
\* schema, read from the attributes of the row; the row has no attribute
\* password, so the field keeps its default.
UserResponse(row) ==
    [id |-> row.id, username |-> row.username, email |-> row.email, password |-> None]

\* What a handler without response_model answers when it returns a User row:
\* FastAPI encodes the attributes of the object (every column that is loaded,
\* and db.refresh has loaded them all), the _sa_ ones left out.
jsonable_encoder(row) == row

\* The JSON object of the user a handler of the users router answers with.
UserBody(op, row) ==
    IF op = "create_user" THEN jsonable_encoder(row) ELSE UserResponse(row)

C25_NoCredential(op, row, password) ==
    LET body == UserBody(op, row)
    IN  /\ {"id", "username", "email"} \subseteq DOMAIN body
        /\ body.id = row.id /\ body.username = row.username /\ body.email = row.email
        /\ "password_hash" \notin DOMAIN body
        /\ "password" \in DOMAIN body => (body.password = None /\ password # None)

C25_Step ==
    /\ (req'.op = "create_user" /\ resp'.status = 201)
       => C25_NoCredential(req'.op, resp'.user, req'.body.password)
    /\ (req'.op \in {"get_user", "update_user"} /\ resp'.status = 200)
       => C25_NoCredential(req'.op, resp'.user, "")
    /\ (req'.op = "get_users" /\ resp'.status = 200)
       => \A row \in resp'.users : C25_NoCredential(req'.op, row, "")

\* C25: the body of a successful create_user, get_user, get_users or update_user
\* carries the id, the username and the email of the user, and neither the
\* password that was submitted nor the stored password hash.
C25_NoCredentialExposed == [][C25_Step]_vars

C26_Step ==
    \A i \in Slots :
        LET user == pending[i].user
            taken == \E u \in db.users : u.username = user.username \/ u.email = user.email
        IN  (pending[i].op = "create_user" /\ pending'[i] = Idle)
            => IF taken
               THEN /\ resp'.status = 400
                    /\ db' = db
               ELSE /\ resp'.status = 201
                    /\ db'.users = db.users \cup {resp'.user}
                    /\ resp'.user.username = user.username
                    /\ resp'.user.email = user.email

\* C26: of two create_user requests that carry the same username (or the same
\* email) and have both run their existence query before either commits, the
\* one that commits first is answered 201 and stores its user, and the other
\* is answered 400 and stores nothing, so that exactly one user is stored.
C26_RaceLoserIs400 == [][C26_Step]_vars

C27_Step ==
    LET caller == get_current_user(req'.header, req'.cookie, db, now)
        f == req'.body
        mine == {t \in db.tasks :
                    /\ Assigned(db, caller.user.id, t.id)
                    /\ (f.status # None => t.status = f.status)
                    /\ (f.title # None => Within(t.title, f.title))}
        n == Cardinality(mine)
        rest == IF n - f.skip > 0 THEN n - f.skip ELSE 0
        out == resp'.tasks
    IN  (req'.op = "get_tasks" /\ caller.status = 200)
        => /\ resp'.status = 200
           /\ db' = db
           /\ \A i \in 1..Len(out) : out[i] \in mine
           /\ \A i, j \in 1..Len(out) : (i # j) => (out[i] # out[j])
           /\ Len(out) = IF f.limit < rest THEN f.limit ELSE rest

\* C27: get_tasks(skip, limit, status, title) by an authenticated caller answers
\* only tasks assigned to the caller whose status is the one given and whose
\* title has the given string as a substring, no task twice, and exactly
\* min(limit, max(0, n - skip)) of the n tasks of the caller that satisfy the
\* filters.
C27_ListFiltered == [][C27_Step]_vars

C28_Step ==
    LET caller == get_current_user(req'.header, req'.cookie, db, now)
    IN  \A p \in Pairs :
            (~Assigned(db, p[1], p[2]) /\ Assigned(db', p[1], p[2]))
            => \/ /\ req'.op = "create_task"
                  /\ caller.status = 200
                  /\ caller.user.id = p[1]
               \/ /\ req'.op \in {"assign_user_to_task", "assign_task_to_user"}
                  /\ caller.status = 200
                  /\ Assigned(db, caller.user.id, p[2])

\* C28: a pair (u, t) enters the assignment relation only through create_task
\* called by u, or through an assignment request whose authenticated caller is
\* assigned to t when the request is made.
C28_AssignedByConsent == [][C28_Step]_vars

\* The account a token of subject i was made for: every token of the model is
\* made for the account that holds id i in the initial state, or by login for
\* the user of that id.
C29_IssuedTo(user, token) ==
    /\ user.id = token.sub.v
    /\ token.sub.kind = "str" => (user.username = SeedName(token.sub.v)
                                   /\ user.email = SeedEmail(token.sub.v))

C29_Step ==
    /\ (req'.op = "get_me" /\ resp'.status = 200)
       => C29_IssuedTo(resp'.user, ExtractToken(req'.header, req'.cookie))
    /\ (req'.op = "refresh" /\ resp'.status = 200)
       => /\ resp'.access_token.sub.v = req'.cookie.sub.v
          /\ resp'.refresh_token.sub.v = req'.cookie.sub.v
          /\ C29_IssuedTo(QueryUserById(db, req'.cookie.sub.v), req'.cookie)

\* C29: whenever get_current_user or refresh accepts a token, the stored user
\* it resolves to is the account the token was made for, whatever create_user
\* (with or without an id chosen by the client), delete_user, login and refresh
\* have done in between.
C29_TokenKeepsAccount == [][C29_Step]_vars

C30_Accepted(d, token) ==
    IF token.type = "refresh"
    THEN refresh(d, token, now).status = 200
    ELSE get_current_user(Bearer(token), NoToken, d, now).status = 200

\* signature, type tag and expiry are in order, and the user of the subject is
\* stored and active
C30_InOrder(d, token) ==
    /\ token.sig = "ok"
    /\ token.exp >= now
    /\ token.sub.kind \in {"str", "int"}
    /\ QueryUserById(d, token.sub.v) # NoUser
    /\ QueryUserById(d, token.sub.v).is_active

\* the tokens a client holds: the ones made for the seeded accounts and the
\* ones the last login or refresh answered
C30_Issued ==
    HeldAccessTokens \cup HeldRefreshTokens \cup {jar.access_token, jar.refresh_token}

C30_AcceptedIffInOrder ==
    \A token \in C30_Issued : C30_Accepted(db, token) <=> C30_InOrder(db, token)

C30_Step ==
    /\ (req'.op = "logout") => (db' = db)
    /\ (req'.op \in {"logout", "refresh", "change_password"})
       => \A token \in AnyTokens \cup C30_Issued :
              C30_Accepted(db, token) => C30_Accepted(db', token)

\* C30: logout changes nothing stored; no token that was accepted before a
\* logout, a refresh or a change_password is refused after it; and a token is
\* accepted exactly when its signature, type tag and expiry are in order and
\* the user of its subject is stored and active.
C30_NothingRevoked == []C30_AcceptedIffInOrder /\ [][C30_Step]_vars

====
